---- MODULE Spec2Model ----
(***************************************************************************)
(* Model of mcp-perplexity-pro: the session manager of the HTTP streaming  *)
(* listener (http-streaming-server.ts, createHTTPStreamingServer), the     *)
(* listener entry point (index: app.listen), the port prober / discovery   *)
(* (port-utils: isPortAvailable, checkMcpServerHealth, discoverMcpPort),   *)
(* the launcher (launcher.ts: main, startServer), the stdio bridge         *)
(* (stdio-bridge.ts), the conversation storage (storage.ts: withLock,      *)
(* addMessage) and the streaming jobs (streaming-wrapper.ts).              *)
(*                                                                         *)
(* The specifications of the module:                                       *)
(*   Spec           one listener process: requests on /mcp, the idle       *)
(*                  sweep, the administrative endpoints, clock, signals.   *)
(*   SpecTimer      Spec with a fair sweep timer.                          *)
(*   SpecLaunch     several launcher processes racing on a host's ports.   *)
(*   SpecDiscover   one discoverMcpPort call over fixed port holders.      *)
(*   SpecHealth     one checkMcpServerHealth call.                         *)
(*   SpecMain       one launcher: arguments, build, transport, child,      *)
(*                  signals; SpecMainFair adds a fair child-exit event.    *)
(*   SpecBridge     the stdio bridge with the launcher it spawns;          *)
(*                  SpecServe adds listeners that end while it runs.       *)
(*   SpecAppend     concurrent addMessage calls on the storage directory.  *)
(*   SpecStream     streaming jobs; SpecStreamFair with fair timers.       *)
(***************************************************************************)
EXTENDS Integers, FiniteSets, Sequences, TLC

(***************************************************************************)
(* Bounds of the model (not program constants).                            *)
(***************************************************************************)
\* how many Server+transport pairs createMCPServer builds in one run (and
\* so how many session ids randomUUID() hands out: one per pair at most)
MaxHandlers == 2
\* how many /mcp requests are between entry and completion at once
MaxInflight == 2
\* how many times the clock advances
MaxTicks == 2
\* how many launcher processes run on the host
MaxLaunchers == 2
\* how many ports of the discovery range the model keeps (the source's range
\* is 8124..8133)
MaxPorts == 2
\* how many signals a launcher receives while it waits for its child
MaxSignals == 2
\* how many addMessage calls run at once
MaxCallers == 3
\* how many chat ids the calls choose from
MaxChats == 2
\* how many streaming jobs executeWithStreaming creates
MaxJobs == 2

(***************************************************************************)
(* Program constants.                                                      *)
(***************************************************************************)
SESSION_TIMEOUT_MS == 30 * 60 * 1000
CLEANUP_INTERVAL_MS == 5 * 60 * 1000

VARIABLES
  \* ---- listener process (createHTTPStreamingServer) ----
  now,             \* Date.now() of the listener host, in ms
  sessions,        \* const sessions: Record<string, SessionData>
  handlers,        \* every Server+transport pair built so far, by number
  usedIds,         \* the ids sessionIdGenerator has returned so far
  reqs,            \* the /mcp requests between entry and completion
  resp,            \* what the latest step wrote: an HTTP response, the
                   \* outcome of a timer-driven cleanup, or nothing
  cleanupInterval, \* TRUE while the setInterval timer is armed
  listenerUp,      \* FALSE once the listener process has exited
  \* ---- the host's ports and the launcher processes (launcher.ts) ----
  ports,           \* who holds each port of MCP_PORT_RANGE
  launch,          \* per launcher: position in main / discoverMcpPort, locals
  \* ---- the stdio bridge process (stdio-bridge.ts) ----
  bridge,          \* StdioHttpBridge: position in start, counters, last call
  \* ---- conversation storage (storage.ts, StorageManager) ----
  files,           \* the conversation files of the storage directory
  locked,          \* per conversation file: the call that holds its lock
  calls,           \* per addMessage call: position, locals, outcome
  \* ---- streaming jobs (streaming-wrapper.ts) ----
  activeStreams,   \* const activeStreams = new Map<string, StreamingState>()
  pollers          \* per job: the closure of startContentStreaming

listenerVars == <<now, sessions, handlers, usedIds, reqs, resp,
                  cleanupInterval, listenerUp>>

launchVars == <<ports, launch>>

bridgeVars == <<bridge>>

storageVars == <<files, locked, calls>>

streamVars == <<activeStreams, pollers>>

vars == <<listenerVars, launchVars, bridgeVars, storageVars, streamVars>>

(***************************************************************************)
(* Values of the mcp-session-id request header.  A header is absent, a     *)
(* UUID, or a name that every JavaScript object inherits from              *)
(* Object.prototype ("constructor", "toString", "__proto__", ...).         *)
(***************************************************************************)
NoHeader == <<"absent", 0>>
Uuid(n) == <<"uuid", n>>
ProtoKey == <<"proto", 0>>
Uuids == {Uuid(n) : n \in 1..MaxHandlers}
Headers == {NoHeader, ProtoKey} \cup Uuids

(***************************************************************************)
(* Kinds of request: a POST whose body is an initialize request, a POST    *)
(* whose body is another JSON-RPC call, a POST the transport cannot accept *)
(* (unparsable body, wrong Accept or Content-Type), and a non-POST method. *)
(***************************************************************************)
Kinds == {"initialize", "call", "malformed", "GET"}
Method(kind) == IF kind = "GET" THEN "GET" ELSE "POST"

\* JavaScript truthiness of `sessionId`: undefined is falsy
Truthy(hdr) == hdr[1] \in {"uuid", "proto"}

\* sessions[sessionId] on a plain object {}: an own entry, a member
\* inherited from Object.prototype (truthy, but no SessionData), or undefined
sessionsGet(tbl, hdr) ==
  IF hdr \in DOMAIN tbl THEN "session"
  ELSE IF hdr = ProtoKey THEN "inherited"
  ELSE "undefined"

\* mutant: the POST test comes first in the chain, so a POST that carries a
\* known session id gets a new Server and transport
Branch_PostFirst(tbl, hdr, method) ==
  IF method = "POST" THEN "create"
  ELSE IF Truthy(hdr) /\ sessionsGet(tbl, hdr) # "undefined" THEN "reuse"
  ELSE IF Truthy(hdr) THEN "expired"
  ELSE "sessionRequired"

\* the if / else-if chain of the /mcp handler
Branch(tbl, hdr, method) ==
  IF Truthy(hdr) /\ sessionsGet(tbl, hdr) # "undefined" THEN "reuse"
  ELSE IF Truthy(hdr) /\ sessionsGet(tbl, hdr) = "undefined" THEN "expired"
  ELSE IF method = "POST" THEN "create"
  ELSE "sessionRequired"

Idle == [phase |-> "idle"]
NoResp == [op |-> "none"]

(***************************************************************************)
(* The per-session handler: a Server from createMCPServer and the          *)
(* StreamableHTTPServerTransport built next to it.                         *)
(***************************************************************************)
createMCPServer(hs) ==
  Append(hs, [initialized |-> FALSE, closed |-> FALSE, sid |-> NoHeader])

\* mutant: a generator that is not random and returns one fixed id
sessionIdGenerator_Fixed(used) == Uuid(1)

\* sessionIdGenerator: () => randomUUID(): an id no earlier call returned
\* (ids are numbered in the order they are handed out)
sessionIdGenerator(used) == Uuid(Cardinality(used) + 1)

\* mutant: lastActivity read from the clock inside the callback, createdAt
\* from the `now` captured before the await
onsessioninitialized_Clock(tbl, newSessionId, h, now0) ==
  [sid \in DOMAIN tbl \cup {newSessionId} |->
     IF sid = newSessionId
     THEN [handler |-> h, lastActivity |-> now, createdAt |-> now0]
     ELSE tbl[sid]]

\* mutant: one Server and transport built once and stored for every session
onsessioninitialized_Shared(tbl, newSessionId, h, now0) ==
  [sid \in DOMAIN tbl \cup {newSessionId} |->
     IF sid = newSessionId
     THEN [handler |-> 1, lastActivity |-> now0, createdAt |-> now0]
     ELSE tbl[sid]]

\* onsessioninitialized: sessions[newSessionId] = {server, transport, lastActivity: now, createdAt: now}
onsessioninitialized(tbl, newSessionId, h, now0) ==
  [sid \in DOMAIN tbl \cup {newSessionId} |->
     IF sid = newSessionId
     THEN [handler |-> h, lastActivity |-> now0, createdAt |-> now0]
     ELSE tbl[sid]]

\* mutant: the session data is stored right after connect, before the
\* transport has seen the request
tableAfterConnect_Eager(tbl, h, now0) ==
  [sid \in DOMAIN tbl \cup {Uuid(h)} |->
     IF sid = Uuid(h)
     THEN [handler |-> h, lastActivity |-> now0, createdAt |-> now0]
     ELSE tbl[sid]]

\* "Use temporary session data for the initial request": after
\* `await server.connect(transport)` the table is as it was
tableAfterConnect(tbl, h, now0) == tbl

\* sessionData.lastActivity = Date.now()
touch(s, t) == [s EXCEPT !.lastActivity = t]

\* what transport.handleRequest does with a request before any message
\* reaches the Server: "reject" (4xx written by the transport, nothing
\* dispatched), "initialize" (session id generated, onsessioninitialized
\* called, then the message dispatched) or "dispatch"
transportVerdict(t, hdr, kind) ==
  IF kind = "malformed" THEN "reject"
  ELSE IF kind = "initialize"
       THEN (IF t.initialized THEN "reject" ELSE "initialize")
       ELSE IF ~t.initialized \/ ~Truthy(hdr) \/ hdr # t.sid THEN "reject"
            ELSE "dispatch"

Slots == 1..MaxInflight

\* a new request takes the lowest idle slot (slots are interchangeable)
FreeSlot(slot) ==
  /\ reqs[slot] = Idle
  /\ \A other \in Slots : other < slot => reqs[other] # Idle

\* an HTTP response to a /mcp request, with the request as the handler saw
\* it on entry: its header, its kind, whether the table held the header's id
Response(hdr, kind, inTable, status, code, msg, h, outSid) ==
  [op |-> "mcp", hdr |-> hdr, kind |-> kind, inTable |-> inTable,
   status |-> status, code |-> code, msg |-> msg, handler |-> h, outSid |-> outSid]

(***************************************************************************)
(* app.all('/mcp'): the code up to its first await, by branch.             *)
(***************************************************************************)
\* if (sessionId && sessions[sessionId]): reuse, touch, handleRequest
McpReuse(slot, hdr, kind) ==
  /\ listenerUp
  /\ FreeSlot(slot)
  /\ Branch(sessions, hdr, Method(kind)) = "reuse"
  /\ IF sessionsGet(sessions, hdr) = "inherited"
     THEN \* sessionData is a member of Object.prototype: it has no
          \* transport, handleRequest throws a TypeError, the catch
          \* block answers 500
          /\ resp' = Response(hdr, kind, FALSE, 500, 0, "Internal server error", 0, NoHeader)
          /\ UNCHANGED <<sessions, reqs>>
     ELSE LET h == sessions[hdr].handler
              v == transportVerdict(handlers[h], hdr, kind)
          IN /\ sessions' = [sessions EXCEPT ![hdr] = touch(@, now)]
             /\ IF v = "dispatch"
                THEN /\ reqs' = [reqs EXCEPT ![slot] =
                                   [phase |-> "handling", handler |-> h, kind |-> "call",
                                    sid |-> hdr, now0 |-> 0, fresh |-> FALSE]]
                     /\ resp' = NoResp
                ELSE /\ resp' = Response(hdr, kind, TRUE, 400, -32600, "Bad Request", h, NoHeader)
                     /\ UNCHANGED reqs
  /\ UNCHANGED <<now, handlers, usedIds, cleanupInterval, listenerUp>>
  /\ UNCHANGED <<launchVars, bridgeVars, storageVars, streamVars>>

\* else if (sessionId && !sessions[sessionId]): 404, reinitialize
McpExpired(hdr, kind) ==
  /\ listenerUp
  /\ Branch(sessions, hdr, Method(kind)) = "expired"
  /\ resp' = Response(hdr, kind, FALSE, 404, -32000,
                      "Session expired or not found. Please reinitialize.", 0, NoHeader)
  /\ UNCHANGED <<now, sessions, handlers, usedIds, reqs, cleanupInterval, listenerUp>>
  /\ UNCHANGED <<launchVars, bridgeVars, storageVars, streamVars>>

\* else if (req.method === 'POST'): new Server and transport, await connect
McpCreate(slot, hdr, kind) ==
  /\ listenerUp
  /\ FreeSlot(slot)
  /\ Branch(sessions, hdr, Method(kind)) = "create"
  /\ Len(handlers) < MaxHandlers
  /\ handlers' = createMCPServer(handlers)
  /\ reqs' = [reqs EXCEPT ![slot] =
                [phase |-> "connecting", handler |-> Len(handlers) + 1, kind |-> kind,
                 sid |-> hdr, now0 |-> now, fresh |-> TRUE]]
  /\ resp' = NoResp
  /\ UNCHANGED <<now, sessions, usedIds, cleanupInterval, listenerUp>>
  /\ UNCHANGED <<launchVars, bridgeVars, storageVars, streamVars>>

\* else: 400 Session required
McpSessionRequired(hdr, kind) ==
  /\ listenerUp
  /\ Branch(sessions, hdr, Method(kind)) = "sessionRequired"
  /\ resp' = Response(hdr, kind, FALSE, 400, 0, "Session required", 0, NoHeader)
  /\ UNCHANGED <<now, sessions, handlers, usedIds, reqs, cleanupInterval, listenerUp>>
  /\ UNCHANGED <<launchVars, bridgeVars, storageVars, streamVars>>

(***************************************************************************)
(* The create branch after `await server.connect(transport)`:              *)
(* sessionData = {server, transport, ...}; transport.handleRequest.        *)
(***************************************************************************)
McpConnected(slot) ==
  /\ listenerUp
  /\ reqs[slot].phase = "connecting"
  /\ LET r == reqs[slot]
         h == r.handler
         v == transportVerdict(handlers[h], r.sid, r.kind)
         tbl == tableAfterConnect(sessions, h, r.now0)
     IN IF v = "initialize"
        THEN LET newSessionId == sessionIdGenerator(usedIds) IN
             /\ usedIds' = usedIds \cup {newSessionId}
             /\ handlers' = [handlers EXCEPT ![h] =
                               [@ EXCEPT !.initialized = TRUE, !.sid = newSessionId]]
             /\ sessions' = onsessioninitialized(tbl, newSessionId, h, r.now0)
             /\ reqs' = [reqs EXCEPT ![slot] =
                           [r EXCEPT !.phase = "handling", !.sid = newSessionId,
                                     !.now0 = 0]]
             /\ resp' = NoResp
        ELSE /\ sessions' = tbl
             /\ resp' = Response(r.sid, r.kind, r.sid \in DOMAIN sessions, 400, -32600,
                                 "Bad Request", h, NoHeader)
             /\ reqs' = [reqs EXCEPT ![slot] = Idle]
             /\ UNCHANGED <<handlers, usedIds>>
  /\ UNCHANGED <<now, cleanupInterval, listenerUp>>
  /\ UNCHANGED <<launchVars, bridgeVars, storageVars, streamVars>>

\* the Server answers the dispatched message and the response is written;
\* a first response carries the new id in the Mcp-Session-Id header.  On a
\* handler that was closed meanwhile the response may never be written.
McpComplete(slot) ==
  /\ listenerUp
  /\ reqs[slot].phase = "handling"
  /\ LET r == reqs[slot] IN
     \E st \in (IF handlers[r.handler].closed THEN {0, 200} ELSE {200}) :
        resp' = Response(IF r.fresh THEN NoHeader ELSE r.sid, r.kind, ~r.fresh, st, 0, "result",
                         r.handler, IF r.fresh THEN r.sid ELSE NoHeader)
  /\ reqs' = [reqs EXCEPT ![slot] = Idle]
  /\ UNCHANGED <<now, sessions, handlers, usedIds, cleanupInterval, listenerUp>>
  /\ UNCHANGED <<launchVars, bridgeVars, storageVars, streamVars>>

(***************************************************************************)
(* cleanupExpiredSessions, its timer and the administrative endpoints.     *)
(***************************************************************************)
\* mutant: >= in place of >
isExpired_AtLeast(t, s) == t - s.lastActivity >= SESSION_TIMEOUT_MS

\* inactiveTime > SESSION_TIMEOUT_MS
isExpired(t, s) == t - s.lastActivity > SESSION_TIMEOUT_MS

expiredSessions(tbl, t) == {sid \in DOMAIN tbl : isExpired(t, tbl[sid])}

\* mutant: the loop closes the servers but forgets the delete
deleteSessions_Keep(tbl, gone) == tbl

\* delete sessions[sessionId] for every id of `gone`
deleteSessions(tbl, gone) == [sid \in DOMAIN tbl \ gone |-> tbl[sid]]

\* sessionData.server.close() for every id of `gone`, inside try/catch and
\* .catch(): the closes of `failing` throw or reject and are only logged
closeServers(hs, tbl, gone, failing) ==
  [h \in DOMAIN hs |->
     IF \E sid \in gone \ failing : tbl[sid].handler = h
     THEN [hs[h] EXCEPT !.closed = TRUE]
     ELSE hs[h]]

\* mutant: no try/catch and no .catch(): a close that fails ends the loop
\* and the sessions whose close failed stay in the table
sweptIds_AbortOnThrow(expired, failing) == expired \ failing

\* the ids the for loop gets to delete: every expired one, since a close
\* that throws or rejects is caught and logged
sweptIds(expired, failing) == expired

\* the {removed, remaining} result, with the ids removed
cleanupExpiredSessions(op, failing) ==
  LET gone == sweptIds(expiredSessions(sessions, now), failing) IN
  /\ sessions' = deleteSessions(sessions, gone)
  /\ handlers' = closeServers(handlers, sessions, gone, failing)
  /\ resp' = [op |-> op,
              ids |-> gone,
              removed |-> Cardinality(gone),
              remaining |-> Cardinality(DOMAIN sessions \ gone)]

\* setInterval(() => cleanupExpiredSessions(), CLEANUP_INTERVAL_MS)
TimerSweep ==
  /\ listenerUp
  /\ cleanupInterval
  /\ \E failing \in SUBSET expiredSessions(sessions, now) :
        cleanupExpiredSessions("timer", failing)
  /\ UNCHANGED <<now, usedIds, reqs, cleanupInterval, listenerUp>>
  /\ UNCHANGED <<launchVars, bridgeVars, storageVars, streamVars>>

\* app.post('/cleanup')
PostCleanup ==
  /\ listenerUp
  /\ \E failing \in SUBSET expiredSessions(sessions, now) :
        cleanupExpiredSessions("cleanup", failing)
  /\ UNCHANGED <<now, usedIds, reqs, cleanupInterval, listenerUp>>
  /\ UNCHANGED <<launchVars, bridgeVars, storageVars, streamVars>>

\* mutant: the forced cleanup spares the sessions that are not expired
PostCleanupAll_ExpiredOnly ==
  /\ listenerUp
  /\ LET gone == expiredSessions(sessions, now) IN
     /\ \E failing \in SUBSET gone :
           handlers' = closeServers(handlers, sessions, gone, failing)
     /\ sessions' = deleteSessions(sessions, gone)
     /\ resp' = [op |-> "cleanupAll", removed |-> Cardinality(gone), remaining |-> 0]
  /\ UNCHANGED <<now, usedIds, reqs, cleanupInterval, listenerUp>>
  /\ UNCHANGED <<launchVars, bridgeVars, storageVars, streamVars>>

\* app.post('/cleanup/all')
PostCleanupAll ==
  /\ listenerUp
  /\ \E failing \in SUBSET DOMAIN sessions :
        handlers' = closeServers(handlers, sessions, DOMAIN sessions, failing)
  /\ sessions' = deleteSessions(sessions, DOMAIN sessions)
  /\ resp' = [op |-> "cleanupAll", removed |-> Cardinality(DOMAIN sessions),
              remaining |-> 0]
  /\ UNCHANGED <<now, usedIds, reqs, cleanupInterval, listenerUp>>
  /\ UNCHANGED <<launchVars, bridgeVars, storageVars, streamVars>>

\* mutant: the health endpoint counts as activity on every session
GetHealth_Touch ==
  /\ listenerUp
  /\ resp' = [op |-> "health", status |-> "healthy",
              active_sessions |-> Cardinality(DOMAIN sessions),
              session_timeout_minutes |-> SESSION_TIMEOUT_MS \div 60000,
              cleanup_interval_minutes |-> CLEANUP_INTERVAL_MS \div 60000]
  /\ sessions' = [sid \in DOMAIN sessions |-> [sessions[sid] EXCEPT !.lastActivity = now]]
  /\ UNCHANGED <<now, handlers, usedIds, reqs, cleanupInterval, listenerUp>>
  /\ UNCHANGED <<launchVars, bridgeVars, storageVars, streamVars>>

\* app.get('/health')
GetHealth ==
  /\ listenerUp
  /\ resp' = [op |-> "health", status |-> "healthy",
              active_sessions |-> Cardinality(DOMAIN sessions),
              session_timeout_minutes |-> SESSION_TIMEOUT_MS \div 60000,
              cleanup_interval_minutes |-> CLEANUP_INTERVAL_MS \div 60000]
  /\ UNCHANGED <<now, sessions, handlers, usedIds, reqs, cleanupInterval, listenerUp>>
  /\ UNCHANGED <<launchVars, bridgeVars, storageVars, streamVars>>

(***************************************************************************)
(* Signals.  createHTTPStreamingServer registers SIGTERM and SIGINT        *)
(* handlers that clear the interval; the entry point registers a SIGINT    *)
(* handler that calls process.exit(0).  A registered handler replaces the  *)
(* default action, so SIGTERM does not end the process.                    *)
(***************************************************************************)
SigTerm ==
  /\ listenerUp
  /\ cleanupInterval
  /\ cleanupInterval' = FALSE
  /\ resp' = NoResp
  /\ UNCHANGED <<now, sessions, handlers, usedIds, reqs, listenerUp>>
  /\ UNCHANGED <<launchVars, bridgeVars, storageVars, streamVars>>

\* what the process leaves behind when it exits: its memory is gone, and
\* `open` counts the handlers of the table that nothing tried to close
SigInt ==
  /\ listenerUp
  /\ cleanupInterval' = FALSE
  /\ listenerUp' = FALSE
  /\ resp' = [op |-> "exit", code |-> 0, timerCleared |-> TRUE,
              open |-> Cardinality({sid \in DOMAIN sessions :
                                      ~handlers[sessions[sid].handler].closed})]
  /\ now' = 0
  /\ sessions' = <<>>
  /\ handlers' = <<>>
  /\ usedIds' = {}
  /\ reqs' = [slot \in Slots |-> Idle]
  /\ UNCHANGED <<launchVars, bridgeVars, storageVars, streamVars>>

(***************************************************************************)
(* The clock: Date.now() advances by a millisecond or by a whole timeout.  *)
(***************************************************************************)
Ticks(t) == (t \div SESSION_TIMEOUT_MS) + (t % SESSION_TIMEOUT_MS)

Tick ==
  /\ listenerUp
  /\ Ticks(now) < MaxTicks
  /\ \/ now' = now + 1
     \/ now' = now + SESSION_TIMEOUT_MS
  /\ resp' = NoResp
  /\ UNCHANGED <<sessions, handlers, usedIds, reqs, cleanupInterval, listenerUp>>
  /\ UNCHANGED <<launchVars, bridgeVars, storageVars, streamVars>>

(***************************************************************************)
(* The ports of the host.  A port of the range is free, held by a process  *)
(* that is no MCP server, held for a moment by the throwaway server of a   *)
(* launcher's isPortAvailable, or held by the listener a launcher spawned. *)
(***************************************************************************)
MCP_PORT_RANGE == [start |-> 8124, end |-> 8124 + MaxPorts - 1]
RangePorts == MCP_PORT_RANGE.start .. MCP_PORT_RANGE.end
\* a port that --http-port= may name and the range does not hold
OutsidePort == MCP_PORT_RANGE.end + 1
AllPorts == RangePorts \cup {OutsidePort}
Launchers == 1..MaxLaunchers
\* parseArgs: httpPort = 8124 unless --http-port= / --port= says otherwise
\* ("Claude Code uses 8124, Claude Desktop uses 8125")
PreferredPorts == {MCP_PORT_RANGE.start, MCP_PORT_RANGE.start + 1}

Free == [kind |-> "free", owner |-> 0]
Foreign == [kind |-> "foreign", owner |-> 0]
Probe(l) == [kind |-> "probe", owner |-> l]
Listener(l) == [kind |-> "server", owner |-> l]

\* PortDiscoveryResult
PortDiscoveryResult(port, isExistingServer, healthStatus) ==
  [port |-> port, isExistingServer |-> isExistingServer, healthStatus |-> healthStatus]
NoDiscovery == PortDiscoveryResult(0, FALSE, "none")

\* mutant: the message names the first port of the range only
CapacityError_StartOnly ==
  [message |-> "No available ports in MCP range", start |-> MCP_PORT_RANGE.start,
   end |-> 0]

\* new Error(`No available ports in MCP range ${MCP_PORT_RANGE.start}-${MCP_PORT_RANGE.end}. ...`):
\* the message by the two numbers it interpolates
CapacityError ==
  [message |-> "No available ports in MCP range", start |-> MCP_PORT_RANGE.start,
   end |-> MCP_PORT_RANGE.end]
NoError == [message |-> "none", start |-> 0, end |-> 0]

\* parseArgs: what the command line comes to.  kind "help" is --help / -h,
\* kind "invalid" a port or transport value that parseArgs rejects
TransportModes == {"stdio", "http", "auto"}
DefaultArgv == [kind |-> "ok", transportMode |-> "auto", httpPort |-> MCP_PORT_RANGE.start]
Argvs ==
  [kind : {"ok"}, transportMode : TransportModes, httpPort : AllPorts]
    \cup {[DefaultArgv EXCEPT !.kind = "help"], [DefaultArgv EXCEPT !.kind = "invalid"]}

\* process.stdin.isTTY / process.stdout.isTTY under Node: true on a
\* tty.ReadStream / tty.WriteStream; a pipe, file or socket has no such
\* property (undefined)
IsTTYValues == {"true", "undefined"}

\* what main reads of its surroundings: process.env.npm_lifecycle_event,
\* the outcome of checkBuildNeeded() (dist/ missing, empty or older than
\* src/), the standard streams, and existsSync of the two compiled entry
\* files
Envs ==
  [npm_lifecycle_event : BOOLEAN, buildNeeded : BOOLEAN,
   stdinIsTTY : IsTTYValues, stdoutIsTTY : IsTTYValues,
   stdioServerFile : BOOLEAN, serverFile : BOOLEAN]
DefaultEnv ==
  [npm_lifecycle_event |-> FALSE, buildNeeded |-> FALSE,
   stdinIsTTY |-> "true", stdoutIsTTY |-> "true",
   stdioServerFile |-> TRUE, serverFile |-> TRUE]

\* a launcher that has not started
IdleLauncher ==
  [pc |-> "idle", preferredPort |-> 0, ctx |-> "none", port |-> 0,
   discovery |-> NoDiscovery, binds |-> 0, probed |-> {}, log |-> "none",
   fetched |-> "none", health |-> "none",
   error |-> NoError, child |-> "none", exitCode |-> -1,
   argv |-> DefaultArgv, env |-> DefaultEnv, mode |-> "none", built |-> FALSE,
   signals |-> 0, kills |-> 0, cause |-> "none"]

\* process.exit(code) after the log line that names the cause
exit(s, code, cause) == [s EXCEPT !.pc = "exited", !.exitCode = code, !.cause = cause]

\* fetch(`http://localhost:${port}/health`) with a 2 s timeout, by who holds
\* the port.  The listener answers 200 {status: 'healthy', ...} (see
\* GetHealth).  A foreign service answers 2xx with another status value
\* ("ok-other"), 2xx with a body that response.json() cannot parse
\* ("ok-unparsable"), a status outside 2xx ("not-ok"), or the fetch fails
\* (no HTTP, reset, no answer within the timeout: "failed").  A free port
\* refuses the connection and a throwaway probe server never answers.
fetchHealth(holder) ==
  IF holder.kind = "server" THEN {"ok-healthy"}
  ELSE IF holder.kind = "foreign" THEN {"ok-other", "ok-unparsable", "not-ok", "failed"}
  ELSE {"failed"}

\* mutant: a 2xx answer counts as healthy whatever its body says
tryHealth_AnyOk(fetched) ==
  IF fetched \in {"ok-healthy", "ok-other", "ok-unparsable"} THEN "healthy"
  ELSE IF fetched = "not-ok" THEN "unhealthy"
  ELSE "catch"

\* the try block of checkMcpServerHealth: what it returns, or "catch" when
\* fetch or response.json() throws
tryHealth(fetched) ==
  IF fetched = "ok-healthy" THEN "healthy"
  ELSE IF fetched \in {"ok-other", "not-ok"} THEN "unhealthy"
  ELSE "catch"

\* the catch block of checkMcpServerHealth once isPortAvailable has resolved
catchHealth(available) == IF available THEN "not-running" ELSE "unhealthy"

\* the port the current step of discoverMcpPort looks at
target(s) == IF s.ctx \in {"fast", "pref"} THEN s.preferredPort ELSE s.port

\* startServer: existsSync(serverPath), then
\* spawn('node', [serverPath, `--port=${httpPort}`]) and the registration of
\* the 'error', 'exit', SIGINT and SIGTERM callbacks
startServer(s) ==
  IF ~s.env.serverFile THEN exit(s, 1, "Server file not found")
  ELSE [s EXCEPT !.pc = "waiting", !.child = "starting"]

\* mutant: the isExistingServer branch does not exit and falls through to
\* startServer
mainAfterDiscovery_FallThrough(s, d) ==
  startServer([s EXCEPT !.discovery = d,
                        !.log = IF d.isExistingServer THEN "Found existing healthy MCP server"
                                ELSE "No existing MCP server found"])

\* main once discoverMcpPort has resolved with d
mainAfterDiscovery(s, d) ==
  IF d.isExistingServer
  THEN exit([s EXCEPT !.discovery = d, !.log = "Found existing healthy MCP server"],
            0, "Found existing healthy MCP server")
  ELSE startServer([s EXCEPT !.discovery = d, !.log = "No existing MCP server found"])

\* mutant: a discovery that throws ends the launcher
mainCatch_Abort(s, error) ==
  exit([s EXCEPT !.log = "Port discovery failed", !.error = error], 1, "Port discovery failed")

\* main's catch: discovery = {port: preferredPort, isExistingServer: false}
mainCatch(s, error) ==
  startServer([s EXCEPT !.discovery = PortDiscoveryResult(s.preferredPort, FALSE, "none"),
                        !.log = "Port discovery failed", !.error = error])

\* mutant: discovery without the fast path, starting with the range scan
discoverMcpPort_NoFastPath(s, preferredPort) ==
  [s EXCEPT !.pc = "fetch", !.ctx = "scan", !.preferredPort = preferredPort,
            !.port = MCP_PORT_RANGE.start]

\* discoverMcpPort(preferredPort?) up to its first await: the health check
\* of the preferred port if one is given (0: none), else of the first port
\* of the range
discoverMcpPort(s, preferredPort) ==
  IF preferredPort # 0
  THEN [s EXCEPT !.pc = "fetch", !.ctx = "fast", !.preferredPort = preferredPort]
  ELSE [s EXCEPT !.pc = "fetch", !.ctx = "scan", !.preferredPort = preferredPort,
                 !.port = MCP_PORT_RANGE.start]

\* mutant: a stream counts as not a terminal when isTTY is not true
detectStdioAvailability_NotTrue(env) == env.stdinIsTTY # "true" /\ env.stdoutIsTTY # "true"

\* detectStdioAvailability: process.stdin.isTTY === false &&
\* process.stdout.isTTY === false
detectStdioAvailability(env) == env.stdinIsTTY = "false" /\ env.stdoutIsTTY = "false"

\* main: actualTransportMode from --transport / --mode and the environment
actualTransportMode(argv, env) ==
  IF argv.transportMode = "stdio" THEN "stdio"
  ELSE IF argv.transportMode = "http" THEN "http"
  ELSE IF detectStdioAvailability(env) THEN "stdio" ELSE "http"

\* startStdioServer up to import(stdioServerPath)
startStdioServer(s) ==
  IF ~s.env.stdioServerFile THEN exit(s, 1, "Stdio server file not found")
  ELSE [s EXCEPT !.pc = "importing"]

\* main from the transport decision on: the stdio server, or port discovery
\* up to its first await
mainAfterBuild(s) ==
  LET t == [s EXCEPT !.mode = actualTransportMode(s.argv, s.env)] IN
  IF t.mode = "stdio" THEN startStdioServer(t)
  ELSE discoverMcpPort(t, t.argv.httpPort)

\* mutant: the build check comes after the transport decision, on the HTTP
\* path only
mainFromArgs_BuildOnHttpOnly(s) ==
  IF ~s.env.npm_lifecycle_event /\ s.env.buildNeeded
     /\ actualTransportMode(s.argv, s.env) = "http"
  THEN [s EXCEPT !.pc = "building"]
  ELSE mainAfterBuild(s)

\* main after parseArgs: `if (!process.env.npm_lifecycle_event &&
\* checkBuildNeeded()) runBuild()` comes first, whatever the transport
mainFromArgs(s) ==
  IF ~s.env.npm_lifecycle_event /\ s.env.buildNeeded
  THEN [s EXCEPT !.pc = "building"]
  ELSE mainAfterBuild(s)

\* what a signal that the launcher passes on does to the child.  Before the
\* child has run its entry module no handler is registered and the signal
\* kills it (exit code null); afterwards SIGINT runs process.exit(0) and
\* SIGTERM only clears the sweep timer (see SigInt, SigTerm).  A child that
\* is gone is not affected.
childAfterKill(child, sig) ==
  IF child = "starting"
  THEN {"killed"} \cup (IF sig = "SIGINT" THEN {"exited"} ELSE {"starting"})
  ELSE IF child \in {"listening", "deaf"}
       THEN (IF sig = "SIGINT" THEN {"exited"} ELSE {child})
       ELSE {child}

\* mutant: the scan loop runs while port < end and misses the last port
afterHealthCheck_SkipLast(s) ==
  IF s.ctx = "fast"
  THEN [s EXCEPT !.pc = "fetch", !.ctx = "scan", !.port = MCP_PORT_RANGE.start]
  ELSE IF s.port < MCP_PORT_RANGE.end - 1
       THEN [s EXCEPT !.pc = "fetch", !.port = @ + 1]
       ELSE IF s.preferredPort # 0
            THEN [s EXCEPT !.pc = "listen", !.ctx = "pref", !.port = @ + 1]
            ELSE [s EXCEPT !.pc = "listen", !.ctx = "avail", !.port = MCP_PORT_RANGE.start]

\* mutant: after the scan the preferred port is not tried first
afterHealthCheck_NoPreferred(s) ==
  IF s.ctx = "fast"
  THEN [s EXCEPT !.pc = "fetch", !.ctx = "scan", !.port = MCP_PORT_RANGE.start]
  ELSE IF s.port < MCP_PORT_RANGE.end
       THEN [s EXCEPT !.pc = "fetch", !.port = @ + 1]
       ELSE [s EXCEPT !.pc = "listen", !.ctx = "avail", !.port = MCP_PORT_RANGE.start]

\* discoverMcpPort after a health check that did not say 'healthy': from
\* the preferred port to the scan, from port to port, from the scan to the
\* availability test of the preferred port (if one is given) or of the range
afterHealthCheck(s) ==
  IF s.ctx = "fast"
  THEN [s EXCEPT !.pc = "fetch", !.ctx = "scan", !.port = MCP_PORT_RANGE.start]
  ELSE IF s.port < MCP_PORT_RANGE.end
       THEN [s EXCEPT !.pc = "fetch", !.port = @ + 1]
       ELSE IF s.preferredPort # 0
            THEN [s EXCEPT !.pc = "listen", !.ctx = "pref", !.port = @ + 1]
            ELSE [s EXCEPT !.pc = "listen", !.ctx = "avail", !.port = MCP_PORT_RANGE.start]

\* checkMcpServerHealth returns health.  A direct caller gets the value;
\* discoverMcpPort only compares it with 'healthy' and returns or goes on
afterHealth(s, health) ==
  IF s.ctx = "health" THEN [s EXCEPT !.pc = "returned", !.health = health]
  ELSE IF health = "healthy"
       THEN mainAfterDiscovery(s, PortDiscoveryResult(target(s), TRUE, "healthy"))
       ELSE afterHealthCheck(s)

\* mutant: the result of the bind test is ignored, every tested port counts
\* as available
afterAvailable_IgnoreBusy(s, available) ==
  IF s.ctx \in {"fast", "scan", "health"} THEN afterHealth(s, catchHealth(available))
  ELSE mainAfterDiscovery(s, PortDiscoveryResult(target(s), FALSE, "none"))

\* the caller of isPortAvailable once it has resolved: checkMcpServerHealth
\* (the result only picks 'not-running' or 'unhealthy'), the preferred-port
\* test, or the loop over the range, which throws past its end
afterAvailable(s, available) ==
  IF s.ctx \in {"fast", "scan", "health"} THEN afterHealth(s, catchHealth(available))
  ELSE IF available
       THEN mainAfterDiscovery(s, PortDiscoveryResult(target(s), FALSE, "none"))
       ELSE IF s.ctx = "pref"
            THEN [s EXCEPT !.pc = "listen", !.ctx = "avail", !.port = MCP_PORT_RANGE.start]
            ELSE IF s.port < MCP_PORT_RANGE.end
                 THEN [s EXCEPT !.pc = "listen", !.port = @ + 1]
                 ELSE mainCatch([s EXCEPT !.port = @ + 1], CapacityError)

(***************************************************************************)
(* Steps of a launcher: main, discoverMcpPort, checkMcpServerHealth,       *)
(* isPortAvailable, and the listener it spawns.                            *)
(***************************************************************************)
\* main up to `await discoverMcpPort(preferredPort)` (HTTP transport)
LauncherMain(l, preferredPort) ==
  /\ launch[l].pc = "idle"
  \* launchers are interchangeable: they start in the order of their numbers
  /\ \A other \in Launchers : other < l => launch[other].pc # "idle"
  /\ launch' = [launch EXCEPT ![l] = discoverMcpPort(@, preferredPort)]
  /\ UNCHANGED ports
  /\ UNCHANGED <<listenerVars, bridgeVars, storageVars, streamVars>>

\* a direct call checkMcpServerHealth(port) of the exported function
HealthCall(l, port) ==
  /\ launch[l].pc = "idle"
  /\ launch' = [launch EXCEPT ![l] =
                 [@ EXCEPT !.pc = "fetch", !.ctx = "health", !.port = port]]
  /\ UNCHANGED ports
  /\ UNCHANGED <<listenerVars, bridgeVars, storageVars, streamVars>>

\* checkMcpServerHealth: the fetch and what follows without another await
checkMcpServerHealth(l) ==
  /\ launch[l].pc = "fetch"
  /\ LET s == [launch[l] EXCEPT !.probed = @ \cup {target(launch[l])}] IN
     \E fetched \in fetchHealth(ports[target(s)]) :
        LET health == tryHealth(fetched)
            \* what the fetch met is kept for a direct call only
            t == [s EXCEPT !.fetched = IF s.ctx = "health" THEN fetched ELSE @] IN
        launch' = [launch EXCEPT ![l] =
                     IF health = "catch" THEN [t EXCEPT !.pc = "listen"]
                     ELSE afterHealth(t, health)]
  /\ UNCHANGED ports
  /\ UNCHANGED <<listenerVars, bridgeVars, storageVars, streamVars>>

\* isPortAvailable: server.listen(port) of the throwaway server
isPortAvailableListen(l) ==
  /\ launch[l].pc = "listen"
  /\ LET s == [launch[l] EXCEPT !.binds = @ + 1,
                               !.probed = @ \cup {target(launch[l])}] IN
     IF ports[target(s)] = Free
     THEN /\ ports' = [ports EXCEPT ![target(s)] = Probe(l)]
          /\ launch' = [launch EXCEPT ![l] = [s EXCEPT !.pc = "close"]]
     ELSE /\ launch' = [launch EXCEPT ![l] = afterAvailable(s, FALSE)]
          /\ UNCHANGED ports
  /\ UNCHANGED <<listenerVars, bridgeVars, storageVars, streamVars>>

\* mutant: the bind test reports true while its throwaway server still
\* holds the port
isPortAvailableClose_NoRelease(l) ==
  /\ launch[l].pc = "close"
  /\ launch' = [launch EXCEPT ![l] = afterAvailable(@, TRUE)]
  /\ UNCHANGED ports
  /\ UNCHANGED <<listenerVars, bridgeVars, storageVars, streamVars>>

\* isPortAvailable: server.close(() => resolve(true))
isPortAvailableClose(l) ==
  /\ launch[l].pc = "close"
  /\ ports' = [ports EXCEPT ![target(launch[l])] = Free]
  /\ launch' = [launch EXCEPT ![l] = afterAvailable(@, TRUE)]
  /\ UNCHANGED <<listenerVars, bridgeVars, storageVars, streamVars>>

\* the spawned listener: app.listen(PORT, ...).  There is no 'error'
\* handler: on EADDRINUSE the process dies of the unhandled 'error' event,
\* or (a framework that hands the error to the listen callback) stays alive
\* without a listening socket
appListen(l) ==
  /\ launch[l].pc = "waiting"
  /\ launch[l].child = "starting"
  /\ LET port == launch[l].discovery.port IN
     IF ports[port] = Free
     THEN /\ ports' = [ports EXCEPT ![port] = Listener(l)]
          /\ launch' = [launch EXCEPT ![l] = [@ EXCEPT !.child = "listening"]]
     ELSE /\ \E outcome \in {"crashed", "deaf"} :
               launch' = [launch EXCEPT ![l] = [@ EXCEPT !.child = outcome]]
          /\ UNCHANGED ports
  /\ UNCHANGED <<listenerVars, bridgeVars, storageVars, streamVars>>

\* serverProcess.on('exit', code => { if (code !== 0) process.exit(code || 1) }):
\* a crashed child has code 1, a child killed by a signal has code null
\* (null || 1 is 1); after a child that exited with 0 the callback does
\* nothing and the launcher, with nothing left to wait for, ends with 0
onChildExit(s) ==
  IF s.child = "exited" THEN exit(s, 0, "none")
  ELSE exit(s, 1, "HTTP server exited with code")

serverProcessExit(l) ==
  /\ launch[l].pc = "waiting"
  /\ launch[l].child \in {"crashed", "exited", "killed"}
  /\ launch' = [launch EXCEPT ![l] = onChildExit(@)]
  /\ UNCHANGED ports
  /\ UNCHANGED <<listenerVars, bridgeVars, storageVars, streamVars>>

\* main from its start to the first point where it waits: parseArgs (help
\* and rejected values end the process there), the build check, the
\* transport decision, and the start of the stdio server or of discovery
main(l, argv, env) ==
  /\ launch[l].pc = "idle"
  /\ launch' = [launch EXCEPT ![l] =
                 IF argv.kind = "help" THEN exit(@, 0, "help")
                 ELSE IF argv.kind = "invalid" THEN exit(@, 1, "Invalid")
                 ELSE mainFromArgs([@ EXCEPT !.argv = argv, !.env = env])]
  /\ UNCHANGED ports
  /\ UNCHANGED <<listenerVars, bridgeVars, storageVars, streamVars>>

\* runBuild: execSync('npm run build', {timeout: 120000}); a build that
\* fails or runs into the timeout ends the process with 1, a build that
\* succeeds leaves the compiled files in dist/
runBuild(l) ==
  /\ launch[l].pc = "building"
  /\ \E ok \in BOOLEAN :
       launch' = [launch EXCEPT ![l] =
                    IF ok
                    THEN mainAfterBuild([@ EXCEPT !.built = TRUE,
                                                  !.env.stdioServerFile = TRUE,
                                                  !.env.serverFile = TRUE])
                    ELSE exit(@, 1, "Build failed")]
  /\ UNCHANGED ports
  /\ UNCHANGED <<listenerVars, bridgeVars, storageVars, streamVars>>

\* startStdioServer: import(stdioServerPath) resolves (the stdio server
\* runs inside the launcher process) or rejects
stdioImport(l) ==
  /\ launch[l].pc = "importing"
  /\ \E ok \in BOOLEAN :
       launch' = [launch EXCEPT ![l] =
                    IF ok THEN [@ EXCEPT !.pc = "stdio"]
                    ELSE exit(@, 1, "Failed to load stdio server")]
  /\ UNCHANGED ports
  /\ UNCHANGED <<listenerVars, bridgeVars, storageVars, streamVars>>

\* serverProcess.on('error', ...): the child could not be spawned
serverProcessError(l) ==
  /\ launch[l].pc = "waiting"
  /\ launch[l].child = "starting"
  /\ launch' = [launch EXCEPT ![l] =
                 exit([@ EXCEPT !.child = "spawn-failed"], 1, "Failed to start HTTP server")]
  /\ UNCHANGED ports
  /\ UNCHANGED <<listenerVars, bridgeVars, storageVars, streamVars>>

\* mutant: SIGTERM is not passed on to the child
onSignal_DropSigterm(s, sig) ==
  IF sig = "SIGTERM" THEN {s}
  ELSE {[s EXCEPT !.kills = @ + 1, !.child = c] : c \in childAfterKill(s.child, sig)}

\* process.on('SIGINT' / 'SIGTERM', () => serverProcess.kill(sig)): the
\* handlers replace the default action, so the launcher itself goes on
onSignal(s, sig) ==
  {[s EXCEPT !.kills = @ + 1, !.child = c] : c \in childAfterKill(s.child, sig)}

\* a signal reaches a launcher that has its handlers: the handler runs, and
\* a listening child that ends gives its port back
signalHandled(l, sig) ==
  \E t \in onSignal([launch[l] EXCEPT !.signals = @ + 1], sig) :
    /\ launch' = [launch EXCEPT ![l] = t]
    /\ ports' = IF launch[l].child = "listening" /\ t.child # "listening"
                THEN [ports EXCEPT ![launch[l].discovery.port] = Free]
                ELSE ports

\* the launcher receives SIGINT or SIGTERM after startServer
LauncherSignal(l, sig) ==
  /\ launch[l].pc = "waiting"
  /\ launch[l].signals < MaxSignals
  /\ signalHandled(l, sig)
  /\ UNCHANGED <<listenerVars, bridgeVars, storageVars, streamVars>>

(***************************************************************************)
(* The stdio bridge (StdioHttpBridge) and the launcher it spawns.          *)
(***************************************************************************)
\* private httpPort = 8125
BridgeHttpPort == 8125
\* waitForHttpServer: const maxAttempts = 30
maxAttempts == 30

\* the launcher's command line: spawn('node', [launcherPath, `--http-port=${this.httpPort}`])
BridgeArgv == [DefaultArgv EXCEPT !.httpPort = BridgeHttpPort]
\* its standard streams: stdio: ['ignore', 'pipe', 'pipe'], no terminal
BridgeEnv == [DefaultEnv EXCEPT !.stdinIsTTY = "undefined", !.stdoutIsTTY = "undefined"]

\* the stdio requests the bridge has handlers for
BridgeOps == {"tools/list", "tools/call"}
NoCall == [op |-> "none", method |-> "none", route |-> "none", status |-> 0,
           isError |-> FALSE, result |-> "none"]

\* a bridge that has not started
IdleBridge ==
  [pc |-> "idle", attempts |-> 0, probes |-> 0, fetched |-> "none",
   connected |-> FALSE, exitCode |-> -1, last |-> NoCall]

\* process.exit(code) of the bridge
bridgeExit(b, code) == [b EXCEPT !.pc = "exited", !.exitCode = code]

\* the routes createHTTPStreamingServer registers, with their methods
\* (app.all('/mcp'), app.get('/health'), app.post('/cleanup'),
\* app.post('/cleanup/all'))
ListenerRoutes ==
  {[method |-> m, route |-> "/mcp"] : m \in {"GET", "POST", "DELETE"}}
    \cup {[method |-> "GET", route |-> "/health"],
          [method |-> "POST", route |-> "/cleanup"],
          [method |-> "POST", route |-> "/cleanup/all"]}

\* the HTTP call a direct client of the listener makes for a stdio request:
\* a JSON-RPC POST to /mcp
directHttpCall(op) == [method |-> "POST", route |-> "/mcp"]

\* mutant: the bridge posts the request to /mcp as a direct client does
bridgeHttpCall_Mcp(op) == directHttpCall(op)

\* setupMcpHandlers: the HTTP call the bridge makes for a stdio request
bridgeHttpCall(op) ==
  IF op = "tools/list" THEN [method |-> "GET", route |-> "/api/tools"]
  ELSE [method |-> "POST", route |-> "/api/tools/:name"]

\* what who holds the port answers to the call: the listener serves its
\* routes and answers 404 to anything else; a foreign service answers
\* something of its own or the fetch fails; on a free port, or one held by a
\* throwaway probe server, the fetch fails (status 0)
httpAnswer(holder, call) ==
  IF holder.kind = "server"
  THEN IF call \in ListenerRoutes
       THEN {[status |-> 200, body |-> "listener-result"]}
       ELSE {[status |-> 404, body |-> "not-found"]}
  ELSE IF holder.kind = "foreign"
       THEN {[status |-> 200, body |-> "foreign"], [status |-> 404, body |-> "not-found"],
             [status |-> 0, body |-> "none"]}
       ELSE {[status |-> 0, body |-> "none"]}

\* mutant: only an HTTP error status counts as a failure, a fetch that throws
\* is passed on as a result
bridgeAnswer_StatusOnly(op, call, answer) ==
  [op |-> op, method |-> call.method, route |-> call.route, status |-> answer.status,
   isError |-> answer.status >= 400,
   result |-> IF answer.status >= 400 THEN "error" ELSE answer.body]

\* the stdio answer of the two request handlers: a response that is not ok
\* (or a fetch that throws) becomes a thrown error for tools/list and an
\* isError result for tools/call
bridgeAnswer(op, call, answer) ==
  [op |-> op, method |-> call.method, route |-> call.route, status |-> answer.status,
   isError |-> ~(answer.status = 200),
   result |-> IF answer.status = 200 THEN answer.body ELSE "error"]

\* mutant: any 2xx answer of the health endpoint makes the bridge ready
waitReady_AnyOk(fetched) == fetched \in {"ok-healthy", "ok-other"}

\* waitForHttpServer: response.ok and health.status === 'healthy'
waitReady(fetched) == fetched = "ok-healthy"

\* start up to the first fetch of waitForHttpServer: startHttpServer spawns
\* the launcher and registers the 'error', 'exit', SIGINT and SIGTERM
\* callbacks
BridgeStart ==
  /\ bridge.pc = "idle"
  /\ bridge' = [bridge EXCEPT !.pc = "polling"]
  /\ UNCHANGED <<listenerVars, launchVars, storageVars, streamVars>>

\* the spawned launcher runs its main
BridgeLauncherMain ==
  /\ bridge.pc # "idle"
  /\ main(1, BridgeArgv, BridgeEnv)

\* one round of the loop of waitForHttpServer: the fetch of /health, then
\* either the return and server.connect(new StdioServerTransport()), or
\* attempts++ and the 500 ms sleep; when the loop ends the error thrown is
\* caught by main, which calls process.exit(1)
BridgeProbe ==
  /\ bridge.pc = "polling"
  /\ bridge.attempts < maxAttempts
  /\ \E fetched \in fetchHealth(ports[BridgeHttpPort]) :
       bridge' = LET b == [bridge EXCEPT !.probes = @ + 1, !.fetched = fetched] IN
                 IF waitReady(fetched)
                 THEN [b EXCEPT !.pc = "serving", !.connected = TRUE]
                 ELSE IF b.attempts + 1 < maxAttempts
                      THEN [b EXCEPT !.attempts = @ + 1]
                      ELSE bridgeExit([b EXCEPT !.attempts = @ + 1], 1)
  /\ UNCHANGED <<listenerVars, launchVars, storageVars, streamVars>>

\* httpServerProcess.on('exit', code => { if (code !== 0) process.exit(code || 1) })
BridgeChildExit ==
  /\ bridge.pc \in {"polling", "serving"}
  /\ launch[1].pc = "exited" /\ launch[1].exitCode > 0
  /\ bridge' = bridgeExit(bridge, launch[1].exitCode)
  /\ UNCHANGED <<listenerVars, launchVars, storageVars, streamVars>>

\* process.on('SIGINT' / 'SIGTERM'): httpServerProcess.kill(sig), then
\* process.exit(0).  A launcher that waits for its child has handlers of its
\* own; before that the signal ends it and frees what it held
BridgeSignal(sig) ==
  /\ bridge.pc \in {"polling", "serving"}
  /\ bridge' = bridgeExit(bridge, 0)
  /\ IF launch[1].pc = "waiting" THEN signalHandled(1, sig)
     ELSE IF launch[1].pc = "exited" THEN UNCHANGED launchVars
     ELSE /\ launch' = [launch EXCEPT ![1] = [@ EXCEPT !.pc = "exited", !.cause = sig]]
          /\ ports' = [p \in AllPorts |-> IF ports[p] = Probe(1) THEN Free ELSE ports[p]]
  /\ UNCHANGED <<listenerVars, storageVars, streamVars>>

\* a tools/list or tools/call request arrives on stdin and is answered
BridgeCall(op) ==
  /\ bridge.pc = "serving"
  /\ \E answer \in httpAnswer(ports[BridgeHttpPort], bridgeHttpCall(op)) :
       bridge' = [bridge EXCEPT !.last = bridgeAnswer(op, bridgeHttpCall(op), answer)]
  /\ UNCHANGED <<listenerVars, launchVars, storageVars, streamVars>>

\* a listener that was running before the bridge started receives SIGINT:
\* process.on('SIGINT', () => { ...; process.exit(0) }) ends it and its port
\* is free again
listenerSigint(p) ==
  /\ ports[p] = Listener(0)
  /\ ports' = [ports EXCEPT ![p] = Free]
  /\ UNCHANGED <<listenerVars, bridgeVars, storageVars, streamVars>>
  /\ UNCHANGED launch

(***************************************************************************)
(* Conversation storage (storage.ts, StorageManager): addMessage under     *)
(* withLock.  A conversation file holds text: nothing (the empty file      *)
(* withLock creates) or the JSON of a Conversation.  The lock of           *)
(* proper-lockfile is the directory `<file>.lock`: lock() fails while      *)
(* another call holds it and is retried `retries` times.                   *)
(***************************************************************************)
ChatIds == 1..MaxChats
Callers == 1..MaxCallers

\* lockfile.lock(filePath, {stale: 10000, retries: 3})
retries == 3

Absent == [kind |-> "absent"]
\* fs.writeFile(filePath, '', 'utf-8')
EmptyText == [kind |-> "text", json |-> FALSE]
\* a Conversation: metadata.message_count and messages
Conversation(messages, message_count) ==
  [messages |-> messages, message_count |-> message_count]
\* JSON.stringify(conversation, null, 2)
JSONstringify(conversation) == [kind |-> "text", json |-> TRUE, value |-> conversation]
\* JSON.parse(data): a SyntaxError on text that is not JSON ('' included)
JSONparse(data) ==
  IF data.json THEN [ok |-> TRUE, value |-> data.value]
  ELSE [ok |-> FALSE, error |-> "SyntaxError"]

\* the message a call appends: its content names the call
Message(c) == [role |-> "user", content |-> c]

NoData == Conversation(<<>>, 0)
IdleCall == [pc |-> "idle", chatId |-> 0, attempts |-> 0, conversation |-> NoData,
             error |-> "none"]

\* the error lockfile.lock rejects with once its retries are used up
ELOCKED == [code |-> "ELOCKED", message |-> "Lock file is already being held"]
\* error.message.includes('EEXIST')
includesEEXIST(message) == message = "EEXIST: file already exists"

\* the catch block of withLock: a StorageError LOCK_TIMEOUT for a message
\* that includes 'EEXIST', the error itself otherwise
withLockCatch(error) ==
  IF includesEEXIST(error.message) THEN "LOCK_TIMEOUT" ELSE error.code

\* the catch block of addMessage's operation
addMessageCatch(error) ==
  IF error = "ENOENT" THEN "CONVERSATION_NOT_FOUND" ELSE "WRITE_ERROR"

\* conversation.messages.push(message);
\* conversation.metadata.message_count = conversation.messages.length
pushMessage(conversation, message) ==
  Conversation(Append(conversation.messages, message), Len(conversation.messages) + 1)

\* listConversations: the metadata of every file that can be read and
\* parsed; a file that cannot is skipped with a warning
listConversations(fs) ==
  {[id |-> chatId, message_count |-> JSONparse(fs[chatId]).value.message_count] :
     chatId \in {ch \in ChatIds : fs[ch] # Absent /\ JSONparse(fs[ch]).ok}}

\* addMessage(chatId, message) up to the first await of withLock
\* (fs.mkdir of the storage directory, which exists)
addMessage(c, chatId) ==
  /\ calls[c].pc = "idle"
  /\ calls' = [calls EXCEPT ![c] = [@ EXCEPT !.pc = "access", !.chatId = chatId]]
  /\ UNCHANGED <<files, locked>>
  /\ UNCHANGED <<listenerVars, launchVars, bridgeVars, streamVars>>

\* withLock: try { await fs.access(filePath) } catch { ... }
withLockAccess(c) ==
  /\ calls[c].pc = "access"
  /\ calls' = [calls EXCEPT ![c] =
                 [@ EXCEPT !.pc = IF files[calls[c].chatId] = Absent THEN "create"
                                  ELSE "lock"]]
  /\ UNCHANGED <<files, locked>>
  /\ UNCHANGED <<listenerVars, launchVars, bridgeVars, streamVars>>

\* withLock: await fs.writeFile(filePath, '', 'utf-8') for a file that
\* fs.access did not find
withLockCreate(c) ==
  /\ calls[c].pc = "create"
  /\ files' = [files EXCEPT ![calls[c].chatId] = EmptyText]
  /\ calls' = [calls EXCEPT ![c] = [@ EXCEPT !.pc = "lock"]]
  /\ UNCHANGED locked
  /\ UNCHANGED <<listenerVars, launchVars, bridgeVars, streamVars>>

\* mutant: no lock is taken, every call reads at once
lockfileLock_NoLock(c) ==
  /\ calls[c].pc = "lock"
  /\ calls' = [calls EXCEPT ![c] = [@ EXCEPT !.pc = "read"]]
  /\ UNCHANGED <<files, locked>>
  /\ UNCHANGED <<listenerVars, launchVars, bridgeVars, streamVars>>

\* one attempt of lockfile.lock: the lock is taken when nobody holds it;
\* otherwise the attempt is retried later, and after the last retry the
\* rejection reaches the catch block of withLock
lockfileLock(c) ==
  /\ calls[c].pc = "lock"
  /\ LET chatId == calls[c].chatId IN
     IF locked[chatId] = 0
     THEN /\ locked' = [locked EXCEPT ![chatId] = c]
          /\ calls' = [calls EXCEPT ![c] = [@ EXCEPT !.pc = "read"]]
     ELSE /\ calls' = [calls EXCEPT ![c] =
                         IF @.attempts < retries
                         THEN [@ EXCEPT !.attempts = @ + 1]
                         ELSE [@ EXCEPT !.pc = "failed", !.error = withLockCatch(ELOCKED)]]
          /\ UNCHANGED locked
  /\ UNCHANGED files
  /\ UNCHANGED <<listenerVars, launchVars, bridgeVars, streamVars>>

\* the operation of addMessage up to its writeFile: readFile, JSON.parse,
\* push; an error goes through the catch block and then the finally of
\* withLock
addMessageRead(c) ==
  /\ calls[c].pc = "read"
  /\ LET data == files[calls[c].chatId] IN
     calls' = [calls EXCEPT ![c] =
                 IF data = Absent
                 THEN [@ EXCEPT !.pc = "unlock", !.error = addMessageCatch("ENOENT")]
                 ELSE IF ~JSONparse(data).ok
                 THEN [@ EXCEPT !.pc = "unlock",
                                !.error = addMessageCatch(JSONparse(data).error)]
                 ELSE [@ EXCEPT !.pc = "write",
                                !.conversation = pushMessage(JSONparse(data).value,
                                                             Message(c))]]
  /\ UNCHANGED <<files, locked>>
  /\ UNCHANGED <<listenerVars, launchVars, bridgeVars, streamVars>>

\* await fs.writeFile(filePath, JSON.stringify(conversation, null, 2))
addMessageWrite(c) ==
  /\ calls[c].pc = "write"
  /\ files' = [files EXCEPT ![calls[c].chatId] = JSONstringify(calls[c].conversation)]
  /\ calls' = [calls EXCEPT ![c] = [@ EXCEPT !.pc = "unlock"]]
  /\ UNCHANGED locked
  /\ UNCHANGED <<listenerVars, launchVars, bridgeVars, streamVars>>

\* finally { await lockfile.unlock(filePath) }, then the return or the
\* rethrow; only the holder's lock is released
lockfileUnlock(c) ==
  /\ calls[c].pc = "unlock"
  /\ locked' = [locked EXCEPT ![calls[c].chatId] = IF @ = c THEN 0 ELSE @]
  /\ calls' = [calls EXCEPT ![c] =
                 [@ EXCEPT !.pc = IF calls[c].error = "none" THEN "done" ELSE "failed"]]
  /\ UNCHANGED files
  /\ UNCHANGED <<listenerVars, launchVars, bridgeVars, streamVars>>

\* no storage call in progress
InitStorage ==
  /\ files = [chatId \in ChatIds |-> Absent]
  /\ locked = [chatId \in ChatIds |-> 0]
  /\ calls = [c \in Callers |-> IdleCall]

(***************************************************************************)
(* Streaming jobs (streaming-wrapper.ts): executeWithStreaming registers   *)
(* the job in activeStreams and startContentStreaming polls it.            *)
(***************************************************************************)
Jobs == 1..MaxJobs

\* const maxPolls = 60
maxPolls == 60

\* AsyncJob.status as typed ('CREATED' | 'STARTED' | 'COMPLETED' | 'FAILED')
TypedStatuses == {"CREATED", "STARTED", "COMPLETED", "FAILED"}
\* what GET /async/chat/completions/{id} answers: the typed values and the
\* stale 'IN_PROGRESS' the API is known to return
JobStatuses == TypedStatuses \cup {"IN_PROGRESS"}

\* the closure of startContentStreaming before the job exists
NoPoller == [pc |-> "none", pollCount |-> 0, lastProgress |-> 0, final |-> "none"]

\* executeWithStreaming with a progress token: createAsyncJob, then
\* activeStreams.set(asyncJob.id, streamState) and startContentStreaming,
\* which arms the first timer; an error answer of createAsyncJob is returned
\* and nothing is registered
executeWithStreaming(j) ==
  /\ pollers[j].pc = "none"
  /\ \E created \in BOOLEAN :
       IF created
       THEN /\ activeStreams' = activeStreams \cup {j}
            /\ pollers' = [pollers EXCEPT ![j] = [@ EXCEPT !.pc = "timer"]]
       ELSE /\ pollers' = [pollers EXCEPT ![j] = [@ EXCEPT !.pc = "rejected"]]
            /\ UNCHANGED activeStreams
  /\ UNCHANGED <<listenerVars, launchVars, bridgeVars, storageVars>>

\* the end of a poll: the final chunk is streamed and
\* activeStreams.delete(jobId)
finish(p, final) == [p EXCEPT !.pc = "stopped", !.final = final]

\* mutant: a status that is neither terminal nor CREATED / STARTED is
\* polled again like a running job
afterPoll_PollUnknown(p, status) ==
  LET q == [p EXCEPT !.pollCount = @ + 1,
                     !.lastProgress = IF status = "STARTED" /\ @ < 25 THEN 25 ELSE @] IN
  IF status = "COMPLETED" THEN finish(q, "Complete")
  ELSE IF status = "FAILED" THEN finish(q, "Job failed")
  ELSE IF q.pollCount < maxPolls THEN q
  ELSE finish(q, "Request timed out")

\* pollAndStreamContent after `if (!activeStreams.has(jobId)) return`, for a
\* job status that getAsyncJob returned: the closure afterwards (pc "timer"
\* while a setTimeout is pending)
afterPoll(p, status) ==
  LET q == [p EXCEPT !.pollCount = @ + 1,
                     !.lastProgress = IF status = "STARTED" /\ @ < 25 THEN 25 ELSE @] IN
  IF status = "COMPLETED" THEN finish(q, "Complete")
  ELSE IF status = "FAILED" THEN finish(q, "Job failed")
  ELSE IF q.pollCount < maxPolls /\ status \in {"CREATED", "STARTED"} THEN q
  ELSE IF q.pollCount >= maxPolls THEN finish(q, "Request timed out")
  ELSE [q EXCEPT !.pc = "stopped"]

\* one run of pollAndStreamContent when its timer fires: getAsyncJob
\* returns a status or throws
pollAndStreamContent(j) ==
  /\ pollers[j].pc = "timer"
  /\ IF j \notin activeStreams
     THEN \* stream was cancelled
          /\ pollers' = [pollers EXCEPT ![j] = [@ EXCEPT !.pc = "stopped"]]
          /\ UNCHANGED activeStreams
     ELSE \E outcome \in JobStatuses \cup {"throws"} :
            LET p == IF outcome = "throws" THEN finish(pollers[j], "Error")
                     ELSE afterPoll(pollers[j], outcome) IN
            /\ pollers' = [pollers EXCEPT ![j] = p]
            /\ activeStreams' = IF p.final # "none" THEN activeStreams \ {j}
                                ELSE activeStreams
  /\ UNCHANGED <<listenerVars, launchVars, bridgeVars, storageVars>>

\* cancelStreaming(jobId): activeStreams.delete(jobId)
cancelStreaming(j) ==
  /\ j \in activeStreams
  /\ activeStreams' = activeStreams \ {j}
  /\ UNCHANGED pollers
  /\ UNCHANGED <<listenerVars, launchVars, bridgeVars, storageVars>>

\* no streaming job yet
InitStreams ==
  /\ activeStreams = {}
  /\ pollers = [j \in Jobs |-> NoPoller]

InitListener ==
  /\ now = 0
  /\ sessions = <<>>
  /\ handlers = <<>>
  /\ usedIds = {}
  /\ reqs = [slot \in Slots |-> Idle]
  /\ resp = NoResp
  /\ cleanupInterval = TRUE
  /\ listenerUp = TRUE

\* the listener alone: no launcher ever starts
Init ==
  /\ InitListener
  /\ ports = [p \in AllPorts |-> Free]
  /\ launch = [l \in Launchers |-> IdleLauncher]
  /\ bridge = IdleBridge
  /\ InitStorage
  /\ InitStreams

Next ==
  \/ \E slot \in Slots, hdr \in Headers, kind \in Kinds : McpReuse(slot, hdr, kind)
  \/ \E hdr \in Headers, kind \in Kinds : McpExpired(hdr, kind)
  \/ \E slot \in Slots, hdr \in Headers, kind \in Kinds : McpCreate(slot, hdr, kind)
  \/ \E hdr \in Headers, kind \in Kinds : McpSessionRequired(hdr, kind)
  \/ \E slot \in Slots : McpConnected(slot)
  \/ \E slot \in Slots : McpComplete(slot)
  \/ TimerSweep
  \/ PostCleanup
  \/ PostCleanupAll
  \/ GetHealth
  \/ SigTerm
  \/ SigInt
  \/ Tick

Spec == Init /\ [][Next]_vars

\* the listener with its timer: while the interval is armed and the process
\* runs, the event loop gets to call the callback
SpecTimer == Init /\ [][Next]_vars /\ WF_vars(TimerSweep)

\* what holds the ports when the first launcher starts: nothing, a foreign
\* process on the first port, or foreign processes on the whole range
ForeignSets == {{}, {MCP_PORT_RANGE.start}, RangePorts}

InitLaunch ==
  /\ InitListener
  /\ \E foreign \in ForeignSets :
        ports = [p \in AllPorts |-> IF p \in foreign THEN Foreign ELSE Free]
  /\ launch = [l \in Launchers |-> IdleLauncher]
  /\ bridge = IdleBridge
  /\ InitStorage
  /\ InitStreams

NextLaunch ==
  \/ \E l \in Launchers, preferredPort \in PreferredPorts : LauncherMain(l, preferredPort)
  \/ \E l \in Launchers : checkMcpServerHealth(l)
  \/ \E l \in Launchers : isPortAvailableListen(l)
  \/ \E l \in Launchers : isPortAvailableClose(l)
  \/ \E l \in Launchers : appListen(l)
  \/ \E l \in Launchers : serverProcessExit(l)

SpecLaunch == InitLaunch /\ [][NextLaunch]_vars

(***************************************************************************)
(* discoverMcpPort on its own: one caller, any holders of the ports, no    *)
(* other process changing them during the call.                            *)
(***************************************************************************)
\* a preferred port of the range, one outside of it, or none (0)
DiscoverPreferred == {0, OutsidePort} \cup PreferredPorts

InitDiscover ==
  /\ InitListener
  /\ ports \in [AllPorts -> {Free, Foreign, Listener(0)}]
  /\ launch = [l \in Launchers |-> IdleLauncher]
  /\ bridge = IdleBridge
  /\ InitStorage
  /\ InitStreams

NextDiscover ==
  \/ \E preferredPort \in DiscoverPreferred : LauncherMain(1, preferredPort)
  \/ checkMcpServerHealth(1)
  \/ isPortAvailableListen(1)
  \/ isPortAvailableClose(1)

SpecDiscover == InitDiscover /\ [][NextDiscover]_vars

\* one direct call of checkMcpServerHealth on any port, with the port
\* holders fixed during the call
NextHealth ==
  \/ \E port \in AllPorts : HealthCall(1, port)
  \/ checkMcpServerHealth(1)
  \/ isPortAvailableListen(1)
  \/ isPortAvailableClose(1)

SpecHealth == InitDiscover /\ [][NextHealth]_vars

\* one launcher from its command line to its end, with the other holders
\* of the ports fixed
Signals == {"SIGINT", "SIGTERM"}

NextMain ==
  \/ \E argv \in Argvs, env \in Envs : main(1, argv, env)
  \/ runBuild(1)
  \/ stdioImport(1)
  \/ checkMcpServerHealth(1)
  \/ isPortAvailableListen(1)
  \/ isPortAvailableClose(1)
  \/ serverProcessError(1)
  \/ appListen(1)
  \/ \E sig \in Signals : LauncherSignal(1, sig)
  \/ serverProcessExit(1)

SpecMain == InitDiscover /\ [][NextMain]_vars

\* the 'exit' event of a child that has ended is delivered
SpecMainFair == SpecMain /\ WF_vars(serverProcessExit(1))

\* the bridge, the launcher it spawns and that launcher's listener, with the
\* other holders of the ports fixed
NextBridge ==
  \/ BridgeStart
  \/ BridgeLauncherMain
  \/ checkMcpServerHealth(1)
  \/ isPortAvailableListen(1)
  \/ isPortAvailableClose(1)
  \/ serverProcessError(1)
  \/ appListen(1)
  \/ serverProcessExit(1)
  \/ BridgeProbe
  \/ BridgeChildExit
  \/ \E sig \in Signals : BridgeSignal(sig)
  \/ \E op \in BridgeOps : BridgeCall(op)

SpecBridge == InitDiscover /\ [][NextBridge]_vars

\* the bridge with listeners that may end while it runs
NextServe ==
  \/ NextBridge
  \/ \E p \in AllPorts : listenerSigint(p)

SpecServe == InitDiscover /\ [][NextServe]_vars

\* the storage directory when the calls start: each chat id has a stored
\* conversation without messages, or no file
StoredOrNot == {Absent, JSONstringify(Conversation(<<>>, 0))}

InitAppend ==
  /\ InitListener
  /\ ports = [p \in AllPorts |-> Free]
  /\ launch = [l \in Launchers |-> IdleLauncher]
  /\ bridge = IdleBridge
  /\ InitStreams
  /\ files \in [ChatIds -> StoredOrNot]
  /\ locked = [chatId \in ChatIds |-> 0]
  /\ calls = [c \in Callers |-> IdleCall]

\* concurrent addMessage calls of one process on the storage directory
NextAppend ==
  \/ \E c \in Callers, chatId \in ChatIds : addMessage(c, chatId)
  \/ \E c \in Callers : withLockAccess(c)
  \/ \E c \in Callers : withLockCreate(c)
  \/ \E c \in Callers : lockfileLock(c)
  \/ \E c \in Callers : addMessageRead(c)
  \/ \E c \in Callers : addMessageWrite(c)
  \/ \E c \in Callers : lockfileUnlock(c)

SpecAppend == InitAppend /\ [][NextAppend]_vars

\* the streaming jobs of one process
NextStream ==
  \/ \E j \in Jobs : executeWithStreaming(j)
  \/ \E j \in Jobs : pollAndStreamContent(j)
  \/ \E j \in Jobs : cancelStreaming(j)

SpecStream == Init /\ [][NextStream]_vars

\* the event loop runs every timer that is armed
SpecStreamFair == SpecStream /\ \A j \in Jobs : WF_vars(pollAndStreamContent(j))

(***************************************************************************)
(* Claims about the session manager (specification Spec).                  *)
(***************************************************************************)
SweepOps == {"timer", "cleanup"}
Handling(slot) == reqs[slot].phase = "handling"
Connecting(slot) == reqs[slot].phase = "connecting"

\* C1: every /mcp request whose header carries a session id that is not in
\* the session table is answered 404 with the JSON-RPC error -32000
\* "reinitialize", and the step creates no session and no handler and
\* leaves the table unchanged.
C1_UnknownSessionGetsReinitialize ==
  [][(resp'.op = "mcp" /\ Truthy(resp'.hdr) /\ ~resp'.inTable)
       => /\ resp'.status = 404
          /\ resp'.code = -32000
          /\ resp'.msg = "Session expired or not found. Please reinitialize."
          /\ sessions' = sessions
          /\ handlers' = handlers]_vars

\* C5: a cleanup (timer or POST /cleanup) never removes a session that has a
\* request in flight.
C5_SweepSparesInflight ==
  resp.op \in SweepOps =>
    \A slot \in Slots : Handling(slot) => reqs[slot].sid \notin resp.ids

\* C6: a cleanup removes exactly the sessions idle for strictly more than
\* 30 minutes and keeps, unchanged, every session idle for 30 minutes or less.
C6_SweepRemovesExactlyExpired ==
  [][resp'.op \in SweepOps
       => /\ resp'.ids = {sid \in DOMAIN sessions :
                            now - sessions[sid].lastActivity > 30 * 60 * 1000}
          /\ DOMAIN sessions' = {sid \in DOMAIN sessions :
                                   now - sessions[sid].lastActivity <= 30 * 60 * 1000}
          /\ \A sid \in DOMAIN sessions' : sessions'[sid] = sessions[sid]
          /\ resp'.removed = Cardinality(resp'.ids)
          /\ resp'.remaining = Cardinality(DOMAIN sessions')]_vars

\* C6 witness: a cleanup has just removed a session and kept one that is idle
\* for exactly the timeout.
C6_Witness ==
  /\ resp.op \in SweepOps
  /\ resp.ids # {}
  /\ \E sid \in DOMAIN sessions : now - sessions[sid].lastActivity = SESSION_TIMEOUT_MS

\* the handler that was created for session id `sid`: the one whose
\* transport generated the id
CreatedFor(hs, h, sid) == h \in DOMAIN hs /\ hs[h].sid = sid

\* C7: once a session exists, every request carrying its id is routed to
\* the handler created for it (the table entry keeps naming that handler,
\* every request in flight on the id and every response for the id come
\* from it), and the session's lastActivity never decreases.
C7_SameHandlerAndMonotoneActivity ==
  [][/\ \A sid \in DOMAIN sessions' : CreatedFor(handlers', sessions'[sid].handler, sid)
     /\ \A slot \in Slots :
          Handling(slot)' => CreatedFor(handlers', reqs'[slot].handler, reqs'[slot].sid)
     /\ (resp'.op = "mcp" /\ resp'.inTable)
          => /\ CreatedFor(handlers', resp'.handler, resp'.hdr)
             /\ resp'.hdr \in DOMAIN sessions => resp'.handler = sessions[resp'.hdr].handler
     /\ \A sid \in DOMAIN sessions \cap DOMAIN sessions' :
          /\ sessions'[sid].handler = sessions[sid].handler
          /\ sessions'[sid].createdAt = sessions[sid].createdAt
          /\ sessions'[sid].lastActivity >= sessions[sid].lastActivity]_vars

\* C7 witness: a request on an existing session has been answered by its
\* handler while a second request on the same session is in flight, and the
\* session's lastActivity has advanced past its creation time.
C7_Witness ==
  /\ resp.op = "mcp" /\ resp.inTable /\ resp.status = 200
  /\ resp.hdr \in DOMAIN sessions
  /\ sessions[resp.hdr].lastActivity > sessions[resp.hdr].createdAt
  /\ \E slot \in Slots : Handling(slot) /\ ~reqs[slot].fresh /\ reqs[slot].sid = resp.hdr

\* C8: a session enters the table only in the step in which the transport
\* of a session-less initialize request accepts the handshake: one session
\* per such step, under an id never handed out before, with createdAt =
\* lastActivity; before that step the handler of the request is in no table
\* entry, and a handshake the transport rejects adds nothing.
C8_CommitOnlyOnInitialized ==
  [][/\ \A sid \in DOMAIN sessions' \ DOMAIN sessions :
          /\ DOMAIN sessions' \ DOMAIN sessions = {sid}
          /\ sid \notin usedIds
          /\ sessions'[sid].createdAt = sessions'[sid].lastActivity
          /\ \E slot \in Slots :
               /\ Connecting(slot) /\ reqs[slot].kind = "initialize"
               /\ ~Truthy(reqs[slot].sid)
               /\ Handling(slot)' /\ reqs'[slot].sid = sid
               /\ sessions'[sid].handler = reqs[slot].handler
               /\ handlers'[reqs[slot].handler].initialized
     /\ \A slot \in Slots :
          /\ Connecting(slot)'
               => \A sid \in DOMAIN sessions' : sessions'[sid].handler # reqs'[slot].handler
          /\ (Connecting(slot) /\ Handling(slot)')
               => Cardinality(DOMAIN sessions' \ DOMAIN sessions) = 1
          /\ (Connecting(slot) /\ reqs'[slot] = Idle /\ listenerUp')
               => /\ sessions' = sessions
                  /\ resp'.op = "mcp" /\ resp'.status >= 400]_vars

\* C8 witness: an initialize request without a session id has been accepted
\* after the clock moved on, and its session is in the table.
C8_Witness ==
  \E slot \in Slots :
    /\ Handling(slot) /\ reqs[slot].fresh
    /\ reqs[slot].sid \in DOMAIN sessions
    /\ sessions[reqs[slot].sid].createdAt < now
    /\ sessions[reqs[slot].sid].handler = reqs[slot].handler

\* C9: a request without a session id that is not an initialize request is
\* answered with an error, is never dispatched to a Server, and adds no
\* session.
C9_SessionlessNonInitRejected ==
  [][/\ (resp'.op = "mcp" /\ ~Truthy(resp'.hdr) /\ resp'.kind # "initialize")
          => (resp'.status >= 400 /\ sessions' = sessions)
     /\ \A slot \in Slots :
          /\ (Handling(slot)' /\ reqs'[slot].fresh) => reqs'[slot].kind = "initialize"
          /\ (Connecting(slot) /\ reqs[slot].kind # "initialize"
                /\ reqs'[slot] # reqs[slot] /\ listenerUp')
               => /\ reqs'[slot] = Idle
                  /\ resp'.op = "mcp" /\ resp'.status >= 400
                  /\ sessions' = sessions]_vars

\* C9 witness: a session-less POST that is no initialize request has been
\* rejected by the transport built for it, and a session-less GET by the
\* handler itself.
C9_Witness ==
  /\ resp.op = "mcp" /\ ~Truthy(resp.hdr) /\ resp.kind = "call"
  /\ resp.status = 400 /\ resp.handler # 0

\* ids of sessions that existed and are in the table no more
Destroyed == usedIds \ DOMAIN sessions

\* C10: no session id has two live handlers, every table entry has its own
\* handler, and an id that was destroyed never enters the table again.
C10_OneHandlerPerIdNoReuse ==
  [][/\ \A sid \in Uuids :
          Cardinality({h \in DOMAIN handlers' :
                         handlers'[h].sid = sid /\ ~handlers'[h].closed}) <= 1
     /\ \A s1, s2 \in DOMAIN sessions' :
          sessions'[s1].handler = sessions'[s2].handler => s1 = s2
     /\ DOMAIN sessions' \subseteq usedIds'
     /\ \A sid \in DOMAIN sessions' \ DOMAIN sessions : sid \notin usedIds]_vars

\* C10 witness: a session was destroyed and a later session is in the table.
C10_Witness == Destroyed # {} /\ DOMAIN sessions # {}

(***************************************************************************)
(* Claims about launchers racing on the ports (specification SpecLaunch).  *)
(***************************************************************************)
Servers == {p \in RangePorts : ports[p].kind = "server"}
Deferred(l) == launch[l].discovery.isExistingServer
\* discoverMcpPort returned from its first health check: no loop ever ran
FastPath(l) == Deferred(l) /\ launch[l].port = 0

\* C2 (as stated): a launcher whose discovery reports an existing healthy
\* server exits with code 0 and never spawns a listener, and when that
\* server is on the launcher's preferred port the launcher never attempted
\* to bind a port, not even for a probe.
C2_DefersAndNeverBindsOnPreferred ==
  \A l \in Launchers :
    Deferred(l) =>
      /\ launch[l].pc = "exited" /\ launch[l].exitCode = 0
      /\ launch[l].child = "none"
      /\ launch[l].discovery.port = launch[l].preferredPort => launch[l].binds = 0

\* C2 (amended): a launcher whose discovery reports an existing healthy
\* server exits with code 0 and never spawns a listener, and when the first
\* health check, the one of the preferred port, finds the healthy server,
\* the launcher never attempted to bind a port.
C2_DefersAndFastPathNeverBinds ==
  \A l \in Launchers :
    Deferred(l) =>
      /\ launch[l].pc = "exited" /\ launch[l].exitCode = 0
      /\ launch[l].child = "none"
      /\ launch[l].discovery.healthStatus = "healthy"
      /\ ports[launch[l].discovery.port].kind = "server"
      /\ FastPath(l) => (launch[l].binds = 0
                         /\ launch[l].discovery.port = launch[l].preferredPort)

\* C2 witness: a launcher found another launcher's listener on its preferred
\* port at once and exited without a bind.
C2_Witness ==
  \E l \in Launchers :
    /\ FastPath(l) /\ launch[l].pc = "exited" /\ launch[l].binds = 0
    /\ ports[launch[l].preferredPort].kind = "server"
    /\ ports[launch[l].preferredPort].owner # l

\* discoverMcpPort told launcher l to start a listener on a port it found
\* free, and the listener has made its bind attempt
TriedToListen(l) ==
  /\ launch[l].log = "No existing MCP server found"
  /\ launch[l].child \notin {"none", "starting"}

\* C3: when two launchers found the same port free and both started a
\* listener on it, neither a launcher nor a listener terminates with a
\* failure, and none is left without a port: the loser goes on to another
\* port.
C3_LostBindNeverFails ==
  \A l1, l2 \in Launchers :
    (/\ l1 # l2
     /\ TriedToListen(l1) /\ TriedToListen(l2)
     /\ launch[l1].discovery.port = launch[l2].discovery.port)
      => /\ launch[l1].child = "listening"
         /\ launch[l1].exitCode \in {-1, 0}

\* every launcher has run to its end: it exited, or it waits on a listener
\* that has settled
Settled ==
  \A l \in Launchers :
    \/ launch[l].pc = "exited"
    \/ launch[l].pc = "waiting" /\ launch[l].child \in {"listening", "deaf"}

\* C4: when the launchers started with no server in the range have all run
\* to their end, at most one listener is left in the range.
C4_ConvergesToOneServer ==
  Settled => Cardinality(Servers) <= 1

(***************************************************************************)
(* More claims about the session manager (specification Spec).             *)
(***************************************************************************)
\* a request that carried the id of a session of the table and is being
\* executed by that session's handler
ExecutingOn(slot) == Handling(slot) /\ ~reqs[slot].fresh

\* C11: no two requests carrying the same session id are being executed by
\* that session's handler at the same time.
C11_OneRequestPerSessionAtATime ==
  \A s1, s2 \in Slots :
    (s1 # s2 /\ ExecutingOn(s1) /\ ExecutingOn(s2)) => reqs[s1].sid # reqs[s2].sid

\* the session ids the /mcp step from the unprimed to the primed state worked
\* on: the id of the request that entered or advanced, or was answered
TouchedBy(rs, rs2, out) ==
  {rs2[slot].sid : slot \in {x \in Slots : rs2[x] # rs[x] /\ rs2[x].phase = "handling"}}
    \cup (IF out.op = "mcp" THEN {out.hdr, out.outSid} ELSE {})

\* C12: no two sessions of the table share a handler, a handler is in the
\* table only under the id it was created for, and a step that handles a
\* request leaves the table entry of every other session as it was.
C12_SessionsAreIsolated ==
  [][/\ \A s1, s2 \in DOMAIN sessions' :
          s1 # s2 => sessions'[s1].handler # sessions'[s2].handler
     /\ \A sid \in DOMAIN sessions' : handlers'[sessions'[sid].handler].sid = sid
     /\ resp'.op \in {"mcp", "none"}
          => /\ DOMAIN sessions \subseteq DOMAIN sessions'
             /\ \A sid \in DOMAIN sessions :
                  sessions'[sid] # sessions[sid] => sid \in TouchedBy(reqs, reqs', resp')
             /\ \A sid \in DOMAIN sessions' \ DOMAIN sessions :
                  sid \in TouchedBy(reqs, reqs', resp')]_vars

\* C12 witness: two sessions with their own handlers; a request is being
\* executed on one of them and has advanced its lastActivity, the other
\* session's entry is as it was created.
C12_Witness ==
  \E s1, s2 \in DOMAIN sessions :
    /\ s1 # s2
    /\ sessions[s1].handler # sessions[s2].handler
    /\ sessions[s1].lastActivity > sessions[s1].createdAt
    /\ sessions[s2].lastActivity = sessions[s2].createdAt
    /\ \E slot \in Slots : ExecutingOn(slot) /\ reqs[slot].sid = s1

HandlerOf(sid) == CHOOSE h \in DOMAIN handlers : handlers[h].sid = sid

\* C14: a sweep in which closing a handler fails still removes every expired
\* session from the table and returns its {removed, remaining} result.
C14_SweepSurvivesCloseFailure ==
  [][resp'.op \in SweepOps
       => /\ \A sid \in DOMAIN sessions :
               now - sessions[sid].lastActivity > SESSION_TIMEOUT_MS
                 => sid \notin DOMAIN sessions'
          /\ resp'.removed = Cardinality(DOMAIN sessions \ DOMAIN sessions')
          /\ resp'.remaining = Cardinality(DOMAIN sessions')]_vars

\* C14 witness: a sweep removed two sessions; the close of one handler
\* failed (it is still open), the other handler is closed.
C14_Witness ==
  /\ resp.op \in SweepOps
  /\ \E s1, s2 \in resp.ids :
       /\ ~handlers[HandlerOf(s1)].closed
       /\ handlers[HandlerOf(s2)].closed
  /\ resp.ids \cap DOMAIN sessions = {}

\* a session of the running listener that has been idle for longer than
\* the timeout
Expired(sid) ==
  /\ listenerUp
  /\ sid \in DOMAIN sessions
  /\ now - sessions[sid].lastActivity > SESSION_TIMEOUT_MS

\* C15 (specification SpecTimer): while the listener runs, a session that
\* has been idle for longer than the timeout does not stay in the table
\* forever: the periodic sweep removes it (unless a request revives it or
\* the process ends first).
C15_IdleSessionEventuallySwept ==
  \A sid \in Uuids : Expired(sid) ~> ~Expired(sid)

\* C16: when the listener process exits on a signal, the cleanup timer has
\* been stopped and no handler of a session of the table is left without a
\* close having been attempted on it.
C16_ShutdownClosesEverySession ==
  resp.op = "exit" => (resp.timerCleared /\ resp.open = 0)

(***************************************************************************)
(* Claims about discoverMcpPort (specification SpecDiscover).  The ports   *)
(* are held by the same processes during the whole call, so the holders    *)
(* seen once discovery has resolved are those it ran against.              *)
(***************************************************************************)
\* the caller of SpecDiscover and its preferred port
D == launch[1]
Pref == launch[1].preferredPort
\* discoverMcpPort has resolved or thrown and main has gone on
Resolved == launch[1].pc \in {"exited", "waiting"}
Threw == launch[1].log = "Port discovery failed"
Healthy(p) == ports[p].kind = "server"
HealthyInRange == {p \in RangePorts : Healthy(p)}
FreeInRange == {p \in RangePorts : ports[p] = Free}
Lowest(S) == CHOOSE p \in S : \A q \in S : p <= q

\* C17: discovery with a preferred port that hosts a healthy server returns
\* {port: preferredPort, isExistingServer: true} and has issued no health
\* probe and no bind test on any other port.
C17_FastPathProbesOnlyPreferred ==
  (Resolved /\ Pref # 0 /\ Healthy(Pref))
    => /\ D.discovery = PortDiscoveryResult(Pref, TRUE, "healthy")
       /\ D.probed = {Pref}
       /\ D.binds = 0

\* C17 witness: discovery returned the preferred port although a lower port
\* of the range hosts a healthy server too.
C17_Witness ==
  /\ Resolved /\ Pref # 0 /\ Healthy(Pref)
  /\ D.discovery.port = Pref
  /\ \E p \in HealthyInRange : p < Pref

C19_OccupiedPreferredFallsBackToLowestFree ==
  (Resolved /\ HealthyInRange = {} /\ Pref # 0 /\ ports[Pref] = Foreign
     /\ FreeInRange # {})
    => /\ D.discovery = PortDiscoveryResult(Lowest(FreeInRange), FALSE, "none")
       /\ D.discovery.port \in RangePorts
       /\ ~Threw

\* C19 witness: the preferred port is occupied, and so is the first port of
\* the range; discovery returned a later, free port.
C19_Witness ==
  /\ Resolved /\ Pref # 0 /\ ports[Pref] = Foreign
  /\ HealthyInRange = {}
  /\ ~D.discovery.isExistingServer /\ ~Threw
  /\ D.discovery.port > MCP_PORT_RANGE.start
  /\ D.discovery.port \in FreeInRange

\* C20: with no healthy server in the range and the preferred port free,
\* discovery returns {port: preferredPort, isExistingServer: false},
\* whatever lower ports are free and wherever the preferred port lies.
C20_FreePreferredIsReturned ==
  (Resolved /\ HealthyInRange = {} /\ Pref # 0 /\ ports[Pref] = Free)
    => /\ D.discovery = PortDiscoveryResult(Pref, FALSE, "none")
       /\ ~Threw

\* C20 witness: the preferred port lies outside the range and is free, the
\* whole range is free too, and discovery returned the preferred port.
C20_Witness ==
  /\ Resolved /\ Pref = OutsidePort /\ ports[Pref] = Free
  /\ FreeInRange = RangePorts
  /\ D.discovery.port = Pref /\ ~D.discovery.isExistingServer

\* the case of a saturated range: no port of the range hosts a healthy
\* server and none is free
Saturated == HealthyInRange = {} /\ FreeInRange = {}

\* C21 as stated: with a saturated range and a preferred port that is not
\* free, discovery returns no port and throws the capacity error that names
\* both bounds of the range.
C21_SaturatedRangeThrows ==
  (Resolved /\ Saturated /\ (Pref = 0 \/ ports[Pref] # Free))
    => /\ Threw
       /\ D.error.start = MCP_PORT_RANGE.start
       /\ D.error.end = MCP_PORT_RANGE.end

\* C21 amended: with a saturated range and a preferred port that is neither
\* free nor the port of a healthy server, discovery returns no port and
\* throws the capacity error that names both bounds of the range.
C21_SaturatedRangeThrowsUnlessPreferredHealthy ==
  (Resolved /\ Saturated /\ (Pref = 0 \/ (ports[Pref] # Free /\ ~Healthy(Pref))))
    => /\ Threw
       /\ D.error = CapacityError
       /\ D.error.start = MCP_PORT_RANGE.start
       /\ D.error.end = MCP_PORT_RANGE.end
       /\ RangePorts \subseteq D.probed

\* C21 witness: discovery threw after every port of the range, and the
\* preferred port outside of it, turned out to be held by other processes.
C21_Witness ==
  /\ Resolved /\ Saturated /\ Threw
  /\ Pref = OutsidePort /\ ports[Pref] = Foreign
  /\ D.error = CapacityError

(***************************************************************************)
(* Claims about the health probe (specification SpecHealth).               *)
(***************************************************************************)
HealthStates == {"healthy", "unhealthy", "not-running"}
Returned == launch[1].pc = "returned"

\* C22: the health probe never throws and resolves to one of healthy,
\* unhealthy, not-running: a 2xx answer with status 'healthy' gives healthy,
\* any other answer (not 2xx, another status, a body that cannot be parsed)
\* gives unhealthy, and a failed connection gives not-running on a free
\* port and unhealthy on a bound one.
C22_ProbeClassifiesAndNeverThrows ==
  /\ D.ctx = "health" => (D.error = NoError /\ D.log = "none")
  /\ Returned
       => /\ D.health \in HealthStates
          /\ D.fetched = "ok-healthy" => D.health = "healthy"
          /\ D.fetched \in {"ok-other", "not-ok", "ok-unparsable"} => D.health = "unhealthy"
          /\ D.fetched = "failed"
               => D.health = IF ports[D.port] = Free THEN "not-running" ELSE "unhealthy"

\* C22 witness: a 2xx answer whose body could not be parsed went through the
\* catch block and its bind test and came out as unhealthy.
C22_Witness ==
  /\ Returned /\ D.fetched = "ok-unparsable"
  /\ D.binds = 1 /\ D.health = "unhealthy"

(***************************************************************************)
(* Claims about one launcher from start to end (specification SpecMain).   *)
(***************************************************************************)
\* discovery returned a port because isPortAvailable reported it free
ReportedFree == launch[1].log = "No existing MCP server found"

\* C23: with no other process acting, a bind test that reports a port free
\* has released its throwaway listener before it reports, never reports a
\* bound port free, and the bind of that port that follows succeeds.
C23_FreeReportThenBindSucceeds ==
  /\ \A p \in AllPorts :
       ports[p].kind = "probe" => (D.pc = "close" /\ target(D) = p)
  /\ (ReportedFree /\ D.child = "starting") => ports[D.discovery.port] = Free
  /\ ReportedFree => D.child \notin {"crashed", "deaf"}

\* C23 witness: the bind test of the range loop reported a port of the range
\* free, after a failed test of another port, and the listener then bound it.
C23_Witness ==
  /\ ReportedFree /\ D.binds > 1
  /\ D.discovery.port \in RangePorts /\ D.discovery.port # Pref
  /\ D.child = "listening"
  /\ ports[D.discovery.port] = Listener(1)

\* the child process has ended, or never came to be
ChildGone == launch[1].child \in {"crashed", "exited", "killed", "spawn-failed"}

\* C24: when discovery throws (the capacity error included) the launcher
\* does not end there: it goes on to startServer with the preferred port
\* and, the compiled listener being in place, spawns the listener on it.
C24_DiscoveryFailureFallsBackToPreferred ==
  (D.error # NoError /\ D.env.serverFile)
    => /\ D.discovery = PortDiscoveryResult(Pref, FALSE, "none")
       /\ D.child # "none"
       /\ D.pc \in {"waiting", "exited"}
       /\ D.pc = "exited" => ChildGone

\* C24 witness: discovery threw the capacity error and the launcher waits
\* for the listener it spawned for its preferred port.
C24_Witness ==
  /\ D.error = CapacityError /\ D.pc = "waiting"
  /\ D.child = "starting" /\ D.discovery.port = Pref
  /\ D.argv.httpPort = Pref

\* the codes the launcher passes to process.exit: for a failed build
\* (runBuild), for a listener that could not be spawned (the 'error'
\* callback of startServer)
BuildFailureCode == 1
SpawnFailureCode == 1

\* the launcher ended after the range was found exhausted: the listener it
\* spawned on the occupied preferred port has died
ExhaustedExit ==
  /\ launch[1].pc = "exited" /\ launch[1].error = CapacityError
  /\ launch[1].cause = "HTTP server exited with code"

\* C25: the launcher ends with 0 when it defers to an existing server and
\* when it shows the help text, and with non-zero codes that differ from
\* each other for a failed build, a failed spawn of the listener and an
\* exhausted port range.
C25_ExitCodesTellCausesApart ==
  D.pc = "exited"
    => /\ D.cause \in {"help", "Found existing healthy MCP server"} => D.exitCode = 0
       /\ D.cause = "Build failed" => D.exitCode # 0
       /\ D.cause = "Failed to start HTTP server"
            => D.exitCode \notin {0, BuildFailureCode}
       /\ ExhaustedExit => D.exitCode \notin {0, BuildFailureCode, SpawnFailureCode}

\* the launcher was started in auto mode with neither standard input nor
\* standard output attached to a terminal, and got past its arguments
AutoNoTerminal ==
  /\ launch[1].pc # "idle" /\ launch[1].mode # "none"
  /\ launch[1].argv.kind = "ok" /\ launch[1].argv.transportMode = "auto"
  /\ launch[1].env.stdinIsTTY # "true" /\ launch[1].env.stdoutIsTTY # "true"

\* C26: in auto mode with neither standard input nor standard output
\* attached to a terminal the launcher resolves the transport to stdio and
\* starts the stdio server, without port discovery (no probe, no bind) and
\* without spawning an HTTP listener.
C26_AutoWithoutTerminalIsStdio ==
  AutoNoTerminal
    => /\ D.mode = "stdio"
       /\ D.probed = {} /\ D.binds = 0
       /\ D.child = "none"

\* the spawned listener has ended (the 'exit' event is due or delivered)
ChildEnded == launch[1].child \in {"crashed", "exited", "killed"}

\* what holds of a launcher and its child in every state
ChildSupervision ==
  /\ D.kills = D.signals
  /\ (D.pc = "exited" /\ D.child # "none") => ChildGone
  /\ (D.pc = "exited" /\ D.child = "exited") => D.exitCode = 0
  /\ (D.pc = "exited" /\ D.child = "crashed") => D.exitCode = 1
  /\ (D.pc = "exited" /\ D.child = "killed") => D.exitCode # 0

\* C27: after the spawn the launcher passes every SIGINT and SIGTERM on to
\* the child, does not end before the child has ended, and once the child
\* has ended it ends too, with 0 after a child that ended with 0 and with
\* the child's non-zero code otherwise.
C27_LauncherFollowsChild ==
  /\ []ChildSupervision
  /\ ChildEnded ~> (D.pc = "exited")

\* C27 witness: the launcher passed a SIGINT on, the listening child ended
\* with 0 and the launcher ended with 0 after it.
C27_Witness ==
  /\ D.pc = "exited" /\ D.child = "exited"
  /\ D.kills > 0 /\ D.exitCode = 0
  /\ D.discovery.port \in RangePorts /\ ports[D.discovery.port] = Free

Building == launch[1].pc = "building"

\* C28: the build check belongs to the HTTP path and is over before port
\* discovery starts: the launcher is in Building only when the transport
\* comes to HTTP and the compiled output is missing or stale, and after a
\* failed build neither discovery nor a spawn is reached.
C28_BuildOnlyOnHttpPathBeforeDiscovery ==
  /\ Building
       => /\ actualTransportMode(D.argv, D.env) = "http"
          /\ D.env.buildNeeded
          /\ D.probed = {} /\ D.binds = 0 /\ D.child = "none"
  /\ D.cause = "Build failed"
       => /\ D.pc = "exited" /\ D.exitCode # 0
          /\ D.probed = {} /\ D.binds = 0 /\ D.child = "none"

(***************************************************************************)
(* Claims about the stdio bridge (specification SpecBridge).               *)
(***************************************************************************)
\* C29: the bridge probes the health endpoint at most 30 times, is ready as
\* soon as one probe gets a 2xx answer with status 'healthy', connects its
\* stdio transport only after such a probe, and when all 30 probes have
\* failed it never serves stdio and ends with a non-zero code.
C29_BoundedHealthWait ==
  /\ bridge.probes <= maxAttempts
  /\ bridge.attempts <= bridge.probes
  /\ bridge.connected
       => (bridge.fetched = "ok-healthy" /\ bridge.probes = bridge.attempts + 1)
  /\ bridge.fetched = "ok-healthy" => bridge.connected
  /\ bridge.attempts = maxAttempts
       => /\ bridge.pc = "exited" /\ bridge.exitCode > 0
          /\ ~bridge.connected
          /\ bridge.last = NoCall

\* C29 witness: all 30 probes of port 8125 failed and the bridge ended with
\* 1, its launcher having deferred (exit 0) to a healthy server on another
\* port.
C29_Witness ==
  /\ bridge.attempts = maxAttempts /\ bridge.probes = maxAttempts
  /\ bridge.pc = "exited" /\ bridge.exitCode = 1
  /\ launch[1].pc = "exited" /\ launch[1].exitCode = 0

\* the listener answers on the bridge's port
ListenerOnBridgePort == ports[BridgeHttpPort].kind = "server"

\* C30: for every tools/list and tools/call request on stdio the bridge
\* makes an HTTP call to an endpoint the listener serves, and the stdio
\* answer carries the listener's result for the operation, the one a direct
\* HTTP client of the listener obtains.
C30_BridgeCallsReachTheListener ==
  (bridge.last # NoCall /\ ListenerOnBridgePort)
    => /\ [method |-> bridge.last.method, route |-> bridge.last.route] \in ListenerRoutes
       /\ bridge.last.status = 200
       /\ ~bridge.last.isError
       /\ bridge.last.result = "listener-result"

(***************************************************************************)
(* C31: once the bridge is serving, a forwarded call whose HTTP exchange   *)
(* fails (the fetch throws, status 0 here, or the status is not 2xx) is    *)
(* answered to the stdio client as an error for that call, and the step    *)
(* that answers it leaves the bridge serving.                              *)
(***************************************************************************)
Forwarded == bridge.pc = "serving" /\ bridge'.last # bridge.last

C31_HttpFailureIsReportedNotFatal ==
  [][Forwarded =>
       /\ bridge'.pc = "serving" /\ bridge'.connected /\ bridge'.exitCode = -1
       /\ bridge'.last.status \notin 200..299 =>
            bridge'.last.isError /\ bridge'.last.result = "error"]_vars

C31_Witness ==
  /\ bridge.pc = "serving"
  /\ bridge.last.op = "tools/call" /\ bridge.last.status = 0 /\ bridge.last.isError

(***************************************************************************)
(* C32: GET /health answers status 'healthy', an active session count      *)
(* equal to the number of entries of the session table, and the configured *)
(* timeout (30 minutes) and cleanup interval (5 minutes); it changes       *)
(* neither the table nor any session's lastActivity.                       *)
(***************************************************************************)
C32_HealthReportsTableAndChangesNothing ==
  [][resp'.op = "health"
       => /\ resp'.status = "healthy"
          /\ resp'.active_sessions = Cardinality(DOMAIN sessions)
          /\ resp'.session_timeout_minutes = 30
          /\ resp'.cleanup_interval_minutes = 5
          /\ sessions' = sessions
          /\ handlers' = handlers]_vars

\* C32 witness: a health answer that counts a session which has been idle
\* for a while, next to a request in flight that is not in the table.
C32_Witness ==
  /\ resp.op = "health" /\ resp.active_sessions >= 1
  /\ \E sid \in DOMAIN sessions : sessions[sid].lastActivity < now
  /\ \E slot \in Slots : reqs[slot] # Idle

(***************************************************************************)
(* C33: POST /cleanup/all removes every session whatever its idle time: it *)
(* answers removed = the table size before the call and remaining = 0 and  *)
(* leaves the table empty; an id that left the table never enters it again *)
(* and a request that arrives with such an id is answered with the         *)
(* reinitialize error.                                                     *)
(***************************************************************************)
C33_ClearAllRemovesEverySession ==
  /\ [][resp'.op = "cleanupAll"
          => /\ resp'.removed = Cardinality(DOMAIN sessions)
             /\ resp'.remaining = 0
             /\ DOMAIN sessions' = {}]_vars
  /\ [][/\ \A sid \in Destroyed : sid \notin DOMAIN sessions'
        /\ \A slot \in Slots :
             (reqs[slot] = Idle /\ reqs'[slot] # Idle) => reqs'[slot].sid \notin Destroyed
        /\ (resp'.op = "mcp" /\ resp'.hdr \in Destroyed /\ ~resp'.inTable)
             => /\ resp'.status = 404
                /\ resp'.code = -32000
                /\ resp'.msg = "Session expired or not found. Please reinitialize."]_vars

\* C33 witness: a forced cleanup has just removed sessions of which none
\* was idle for longer than the timeout.
C33_Witness ==
  /\ resp.op = "cleanupAll" /\ resp.removed >= 1 /\ resp.remaining = 0
  /\ now <= SESSION_TIMEOUT_MS
  /\ Destroyed # {} /\ DOMAIN sessions = {}

(***************************************************************************)
(* C34: the listener offers an administrative operation that force-expires *)
(* one named session: for every session of the table, whatever its idle    *)
(* time, an administrative request can remove exactly that session and     *)
(* leave every other table entry unchanged.                                *)
(***************************************************************************)
\* the administrative endpoints createHTTPStreamingServer registers
AdminStep == PostCleanup \/ PostCleanupAll

ForceExpires(sid) ==
  /\ AdminStep
  /\ sid \notin DOMAIN sessions'
  /\ \A other \in DOMAIN sessions \ {sid} :
       other \in DOMAIN sessions' /\ sessions'[other] = sessions[other]

C34_ForceExpireOneSession ==
  listenerUp => \A sid \in DOMAIN sessions : ENABLED ForceExpires(sid)

(***************************************************************************)
(* Claims about the conversation storage (specification SpecAppend).       *)
(***************************************************************************)
Stored(chatId) == files[chatId] # Absent /\ JSONparse(files[chatId]).ok
Ended(c) == calls[c].pc \in {"done", "failed"}
\* how many times the stored conversation holds the message of call c
Occurrences(chatId, c) ==
  LET messages == JSONparse(files[chatId]).value.messages IN
  Cardinality({i \in DOMAIN messages : messages[i] = Message(c)})

\* every call on a stored conversation that has ended has succeeded
AppendsSucceed ==
  \A c \in Callers : (Ended(c) /\ Stored(calls[c].chatId)) => calls[c].pc = "done"

\* a stored conversation holds the message of every call that succeeded
\* exactly once, no message of a call that failed, and a message_count equal
\* to the number of its messages
NoLostUpdate ==
  \A chatId \in ChatIds :
    Stored(chatId) =>
      /\ \A c \in Callers :
           (Ended(c) /\ calls[c].chatId = chatId) =>
              Occurrences(chatId, c) = (IF calls[c].pc = "done" THEN 1 ELSE 0)
      /\ JSONparse(files[chatId]).value.message_count
           = Len(JSONparse(files[chatId]).value.messages)

\* C35: for any number of concurrent addMessage calls on one stored
\* conversation every call succeeds, and the stored conversation then holds
\* each appended message exactly once with message_count equal to the number
\* of stored messages.
C35_ConcurrentAppendsAllSucceed == AppendsSucceed /\ NoLostUpdate

\* C40: addMessage on a chat id that has no stored conversation fails with
\* CONVERSATION_NOT_FOUND and leaves the storage directory unchanged: no
\* step creates a file for an id that has none, and the id does not show up
\* in a listing of the conversations.
C40_AppendToUnknownChatFailsCleanly ==
  /\ [](\A c \in Callers :
          (Ended(c) /\ ~Stored(calls[c].chatId))
            => /\ calls[c].pc = "failed"
               /\ calls[c].error = "CONVERSATION_NOT_FOUND"
               /\ \A entry \in listConversations(files) : entry.id # calls[c].chatId)
  /\ [][\A chatId \in ChatIds : files[chatId] = Absent => files'[chatId] = Absent]_vars

(***************************************************************************)
(* Claims about the streaming jobs (specifications SpecStream and          *)
(* SpecStreamFair).                                                        *)
(***************************************************************************)
Registered(j) == j \in activeStreams
\* the job is out of the registry and no timer of its poller is pending
Released(j) == j \notin activeStreams /\ pollers[j].pc = "stopped"

\* C39: every job that executeWithStreaming registers in activeStreams is
\* eventually removed from it and its polling stops, whatever status values
\* the job API returns: on completion, failure, polling error, cancellation
\* or after at most 60 polls.
C39_EveryJobEventuallyReleased ==
  \A j \in Jobs : Registered(j) ~> Released(j)

(***************************************************************************)
(* C36: after the bridge has spawned the launcher, the port the bridge     *)
(* polls and forwards calls to is the port of the server the launcher      *)
(* deferred to or started; when the launcher defers to a healthy server on *)
(* another port of the range and exits with 0, the bridge still starts     *)
(* (it does not give up with exit code 1).                                 *)
(***************************************************************************)
\* the launcher of the bridge has a server: one it deferred to, or the
\* listener it spawned
LauncherHasServer ==
  \/ Deferred(1)
  \/ launch[1].child = "listening"

C36_BridgeFollowsTheLauncher ==
  /\ (bridge.pc # "idle" /\ LauncherHasServer)
       => BridgeHttpPort = launch[1].discovery.port
  /\ (Deferred(1) /\ launch[1].pc = "exited" /\ launch[1].exitCode = 0)
       => ~(bridge.pc = "exited" /\ bridge.exitCode = 1)

(***************************************************************************)
(* C37: the transient bind of one process's port-free test is invisible to *)
(* the other processes: no port-free test of another process reports 'not  *)
(* free' because of it, and no starting listener's bind fails because of   *)
(* it.                                                                     *)
(***************************************************************************)
\* the step is a bind test of launcher l that finds its port taken
BindTestFails(l) ==
  /\ launch[l].pc = "listen"
  /\ launch'[l] # launch[l]
  /\ ports[target(launch[l])] # Free

\* the step is the bind of launcher l's listener, and it fails
ListenerBindFails(l) ==
  /\ launch[l].pc = "waiting" /\ launch[l].child = "starting"
  /\ launch'[l].child \in {"crashed", "deaf"}

C37_TransientBindIsInvisible ==
  [][\A l \in Launchers :
       /\ BindTestFails(l) => ports[target(launch[l])].kind # "probe"
       /\ ListenerBindFails(l) => ports[launch[l].discovery.port].kind # "probe"]_vars

(***************************************************************************)
(* C38: every handler (Server and transport) the listener creates for a    *)
(* request without a session id is registered in the session table or      *)
(* closed: once the request is over, a handler that did not complete an    *)
(* initialization is closed.                                               *)
(***************************************************************************)
\* no request is between entry and completion on handler h
NoRequestOn(h) ==
  \A slot \in Slots : reqs[slot] = Idle \/ reqs[slot].handler # h

C38_NoHandlerLeftOutsideTheTable ==
  \A h \in DOMAIN handlers :
    (NoRequestOn(h) /\ \A sid \in DOMAIN sessions : sessions[sid].handler # h)
      => (handlers[h].closed \/ handlers[h].initialized)

====
